---- MODULE Spec2Model ----
(***************************************************************************)
(* SpotifyDJ: the query planner (brain.py), the track-pool builder and the *)
(* playback orchestrator (spotify_client.py).                              *)
(*                                                                         *)
(* Strings that the code inspects character by character (the request,    *)
(* the queries) are sequences of one-character strings; "" is <<>>.         *)
(***************************************************************************)
EXTENDS Integers, Sequences, FiniteSets, TLC

\* ------------------------------------------------------------------ bounds
MaxReqLen   == 3    \* characters of a request
MaxPrev     == 2    \* previous queries handed to a continuation
MaxPlaylist == 2    \* tracks of a playlist handed to the planner
PoolPageLen == 2    \* tracks one catalog answer holds when the pool builder is checked alone
PlayPageLen == 1    \* tracks one catalog answer holds within a play call
MaxMixPlaylist == 1 \* tracks of the playlist handed to a mixed play
MaxMix      == 3    \* length of each list handed to the interleaving alone
MaxLongPlaylist == 11 \* tracks of the longest playlist handed to the planner
MaxFullShuffle == 3  \* longest list of which every shuffle is drawn
MaxStarts   == 3    \* calls of SkipDetector.start()
MaxTime     == 40   \* the clock's last instant, in seconds
MaxJobs     == 2    \* preference-store calls in flight at once
MaxCalls    == 2    \* preference-store calls in one run
MaxThreads  == 3    \* threads calling _get_embedder
MaxEmbedCalls == 4  \* calls of _get_embedder in one run
MaxQueries  == 2    \* queries handed to a pool builder, request by request
MaxAlbumPages == 2  \* pages of one album's track list
MaxRuns == 4
LikeCallsKept == 2

\* ----------------------------------------------------------- general helpers
SeqsUpTo(S, n) == UNION {[1..k -> S] : k \in 0..n}

Range(s) == {s[i] : i \in 1..Len(s)}

Min2(a, b) == IF a < b THEN a ELSE b

Max2(a, b) == IF a > b THEN a ELSE b

Prefix(s, n) == SubSeq(s, 1, Min2(n, Len(s)))

\* all orderings of a finite set, as sequences without repetition
Orderings(S) == {p \in [1..Cardinality(S) -> S] : \A i, j \in 1..Cardinality(S) : i # j => p[i] # p[j]}

None == [kind |-> "None"]

\* ------------------------------------------------------------------ strings
Alphabet == {"a", "A", "b", " "}

Requests == SeqsUpTo(Alphabet, MaxReqLen)

\* the user's text where the planner only pastes it into the prompt
Prompts == {<<>>, <<"b">>}

\* str.lower() on the model's alphabet
LowerChar(c) == IF c = "A" THEN "a" ELSE c

Lower(s) == [i \in 1..Len(s) |-> LowerChar(s[i])]

\* str.split(): maximal runs of non-whitespace characters
RECURSIVE SplitWs(_, _, _)
SplitWs(s, cur, acc) ==
    IF s = <<>> THEN (IF cur = <<>> THEN acc ELSE Append(acc, cur))
    ELSE IF Head(s) = " "
         THEN SplitWs(Tail(s), <<>>, IF cur = <<>> THEN acc ELSE Append(acc, cur))
         ELSE SplitWs(Tail(s), Append(cur, Head(s)), acc)

Split(s) == SplitWs(s, <<>>, <<>>)

\* " ".join(words)
RECURSIVE Join(_)
Join(words) ==
    IF words = <<>> THEN <<>>
    ELSE IF Len(words) = 1 THEN words[1]
    ELSE words[1] \o <<" ">> \o Join(Tail(words))

\* STOPWORDS, the words of it that can be written in the model's alphabet
\* plus some that cannot
STOPWORDS == {<<"a">>, <<"i">>, <<"m", "e">>, <<"t", "o">>, <<"o", "n">>,
              <<"p", "l", "a", "y">>, <<"t", "h", "e">>}

\* ------------------------------------------------------- planner (brain.py)
NumCandidates == 4

DefaultQueueSize == 40

ContinueQueueSize == 40

PlaylistFallbackQueueSize == 50

MaxFallbackArtists == 8

ClampLo == 1

ClampHi == 100

ClampQueueSize(n) == Max2(ClampLo, Min2(ClampHi, n))

Directives(r, q, n) == [reasoning |-> r, queries |-> q, queue_size |-> n]

KeywordFallbackNoVerbatim(user_prompt) ==
    LET words   == Split(Lower(user_prompt))
        cleaned == SelectSeq(words, LAMBDA w : w \notin STOPWORDS)
    IN  Directives("keyword", <<Join(cleaned)>>, DefaultQueueSize)

\* _keyword_fallback
KeywordFallback(user_prompt) ==
    LET words   == Split(Lower(user_prompt))
        cleaned == SelectSeq(words, LAMBDA w : w \notin STOPWORDS)
        query   == IF Join(cleaned) # <<>> THEN Join(cleaned) ELSE user_prompt
    IN  Directives("keyword", <<query>>, DefaultQueueSize)

\* what a remote candidate model may answer to generate_content
AIQueryStrs == {<<"b">>, <<"a", "b">>}

AIQueryLists == {<<>>, <<<<"b">>>>, <<<<"b">>, <<"a", "b">>>>}

ClaimedSizes == {-3, 0, 40, 101}

GeminiResponses ==
    {[kind |-> k] : k \in {"err429", "err404", "errOther", "noparse"}}
    \cup {[kind |-> "parsed", queries |-> q, queue_size |-> n] :
            q \in AIQueryLists, n \in ClaimedSizes}

\* what the local endpoint may answer: the text of a chat completion, by the
\* features _parse_local_response looks at
JsonQueries ==
    {[k |-> "missing"], [k |-> "notlist"]} \cup {[k |-> "list", v |-> q] : q \in AIQueryLists}

JsonSizes ==
    {[k |-> "missing"], [k |-> "bad"]} \cup {[k |-> "int", v |-> n] : n \in ClaimedSizes}

LocalTexts ==
    {[fence |-> f, braces |-> FALSE] : f \in {"none", "lines", "oneline"}}
    \cup {[fence |-> f, braces |-> TRUE, valid |-> FALSE] : f \in {"none", "lines", "oneline"}}
    \cup {[fence |-> f, braces |-> TRUE, valid |-> TRUE, queries |-> q, queue_size |-> n] :
            f \in {"none", "lines", "oneline"}, q \in JsonQueries, n \in JsonSizes}

LocalResponses ==
    {[kind |-> k] : k \in {"importError", "callError"}}
    \cup {[kind |-> "text", text |-> t] : t \in LocalTexts}

ParseLocalResponseNoClamp(text) ==
    IF text.fence = "oneline" \/ ~text.braces THEN None
    ELSE IF ~text.valid THEN None
    ELSE IF text.queries.k = "notlist" \/ text.queue_size.k = "bad" THEN None
    ELSE LET q == IF text.queries.k = "list" THEN text.queries.v ELSE <<>>
             n == IF text.queue_size.k = "int" THEN text.queue_size.v ELSE DefaultQueueSize
         IN  IF q = <<>> THEN None
             ELSE Directives("local", q, n)

\* _parse_local_response: a fenced answer on one line loses its body with the
\* fence lines; no brace pair, invalid JSON, a queries value that is no list or
\* a queue_size that int() rejects all end in None
ParseLocalResponse(text) ==
    IF text.fence = "oneline" \/ ~text.braces THEN None
    ELSE IF ~text.valid THEN None
    ELSE IF text.queries.k = "notlist" \/ text.queue_size.k = "bad" THEN None
    ELSE LET q == IF text.queries.k = "list" THEN text.queries.v ELSE <<>>
             n == IF text.queue_size.k = "int" THEN text.queue_size.v ELSE DefaultQueueSize
         IN  IF q = <<>> THEN None
             ELSE Directives("local", q, ClampQueueSize(n))

\* the queue_size a local answer claims, for the answers that carry one
LocalClaimed(text) ==
    IF text.braces /\ text.valid /\ text.queue_size.k = "int" THEN text.queue_size.v
    ELSE DefaultQueueSize

GeminiAcceptAny(r) ==
    IF r.kind = "parsed"
    THEN Directives("gemini", r.queries, ClampQueueSize(r.queue_size))
    ELSE None

\* one candidate's answer as _call_gemini takes it (lines 359-364)
GeminiAccept(r) ==
    IF r.kind = "parsed" /\ r.queries # <<>>
    THEN Directives("gemini", r.queries, ClampQueueSize(r.queue_size))
    ELSE None

\* playlist tracks as the planner reads them: the artists of each track
Artists == {<<"b">>, <<"b", "a">>}

PlannerTracks == {[artists |-> a] : a \in {<<>>} \cup {<<x>> : x \in Artists}}

PlannerPlaylists == SeqsUpTo(PlannerTracks, MaxPlaylist)

PlaylistArtists(playlist_tracks) ==
    {playlist_tracks[i].artists[1] :
        i \in {j \in 1..Len(playlist_tracks) : playlist_tracks[j].artists # <<>>}}

\* longer playlists, for the cap of the fallback: track 3 has no artist, track
\* 5 repeats the artist of track 1, every other track has an artist of its own
ArtistName(i) == [k \in 1..i |-> "b"]

LongTrack(i) ==
    [artists |-> IF i = 3 THEN <<>> ELSE IF i = 5 THEN <<ArtistName(1)>> ELSE <<ArtistName(i)>>]

LongPlaylists ==
    {[i \in 1..n |-> LongTrack(i)] : n \in (MaxLongPlaylist - 2)..MaxLongPlaylist}

RECURSIVE ByLength(_)
ByLength(S) ==
    IF S = {} THEN <<>>
    ELSE LET m == CHOOSE x \in S : \A y \in S : Len(x) <= Len(y)
         IN  <<m>> \o ByLength(S \ {m})

\* the orders random.shuffle(artists) is drawn from: every order of a short
\* list; of a longer one, the rotations of one order and their reversals
ArtistOrders(S) ==
    IF Cardinality(S) <= MaxFullShuffle THEN Orderings(S)
    ELSE LET c == ByLength(S)
             n == Len(c)
         IN  {[i \in 1..n |-> c[((i + r - 1) % n) + 1]] : r \in 0..(n - 1)}
             \cup {[i \in 1..n |-> c[((n - i + r) % n) + 1]] : r \in 0..(n - 1)}

FallbackSetNoCap(entry, user_prompt, previous_queries, playlist_tracks) ==
    CASE entry = "fresh" ->
           {Directives("fallback", KeywordFallback(user_prompt).queries, DefaultQueueSize)}
      [] entry = "continue" ->
           {Directives("repeat", previous_queries, ContinueQueueSize)}
      [] entry = "playlist" ->
           {Directives("artists", p, PlaylistFallbackQueueSize) :
               p \in ArtistOrders(PlaylistArtists(playlist_tracks))}

\* the directives each entry point returns when _call_ai returned None
FallbackSet(entry, user_prompt, previous_queries, playlist_tracks) ==
    CASE entry = "fresh" ->
           {Directives("fallback", KeywordFallback(user_prompt).queries, DefaultQueueSize)}
      [] entry = "continue" ->
           {Directives("repeat", previous_queries, ContinueQueueSize)}
      [] entry = "playlist" ->
           {Directives("artists", Prefix(p, MaxFallbackArtists), PlaylistFallbackQueueSize) :
               p \in ArtistOrders(PlaylistArtists(playlist_tracks))}

FinishKeep(entry, d) == d

\* what each entry point does with a result of _call_ai
Finish(entry, d) ==
    IF entry = "continue" THEN [d EXCEPT !.queue_size = ContinueQueueSize] ELSE d

VARIABLES pl_pc, pl_entry, pl_request, pl_prev, pl_playlist, pl_cfg,
          pl_model, pl_raw, pl_result, pl_calls

plannerVars == <<pl_pc, pl_entry, pl_request, pl_prev, pl_playlist, pl_cfg,
                 pl_model, pl_raw, pl_result, pl_calls>>

Configs == [api_key : BOOLEAN, local_only : BOOLEAN, local_url : BOOLEAN]

PlannerInit ==
    /\ pl_pc = "idle"
    /\ pl_entry = "none"
    /\ pl_request = <<>>
    /\ pl_prev = <<>>
    /\ pl_playlist = <<>>
    /\ pl_cfg = [api_key |-> FALSE, local_only |-> FALSE, local_url |-> FALSE]
    /\ pl_model = 0
    /\ pl_raw = None
    /\ pl_result = None
    /\ pl_calls = <<>>

EnterAIWithKey(cfg) == IF cfg.api_key THEN "gemini_client" ELSE "local"

\* _call_ai, lines 383-389: the remote tier is entered only with a key and
\* without local_only
EnterAI(cfg) == IF cfg.api_key /\ ~cfg.local_only THEN "gemini_client" ELSE "local"

\* get_vibe_params(user_prompt, api_key, local_only)
GetVibeParams(user_prompt, cfg) ==
    /\ pl_pc = "idle"
    /\ pl_entry' = "fresh"
    /\ pl_request' = user_prompt
    /\ pl_cfg' = cfg
    /\ pl_pc' = EnterAI(cfg)
    /\ UNCHANGED <<pl_prev, pl_playlist, pl_model, pl_raw, pl_result, pl_calls>>

\* get_continue_params(original_prompt, previous_queries, api_key, local_only)
GetContinueParams(original_prompt, previous_queries, cfg) ==
    /\ pl_pc = "idle"
    /\ pl_entry' = "continue"
    /\ pl_request' = original_prompt
    /\ pl_prev' = previous_queries
    /\ pl_cfg' = cfg
    /\ pl_pc' = EnterAI(cfg)
    /\ UNCHANGED <<pl_playlist, pl_model, pl_raw, pl_result, pl_calls>>

\* get_playlist_vibe_params(playlist_tracks, user_prompt, api_key, local_only)
GetPlaylistVibeParams(playlist_tracks, user_prompt, cfg) ==
    /\ pl_pc = "idle"
    /\ pl_entry' = "playlist"
    /\ pl_request' = user_prompt
    /\ pl_playlist' = playlist_tracks
    /\ pl_cfg' = cfg
    /\ pl_pc' = EnterAI(cfg)
    /\ UNCHANGED <<pl_prev, pl_model, pl_raw, pl_result, pl_calls>>

\* _call_gemini, line 347: genai.Client(...) is built outside the try block
GeminiClient(ok) ==
    /\ pl_pc = "gemini_client"
    /\ pl_pc' = IF ok THEN "gemini" ELSE "raised"
    /\ pl_model' = IF ok THEN 1 ELSE pl_model
    /\ UNCHANGED <<pl_entry, pl_request, pl_prev, pl_playlist, pl_cfg, pl_raw,
                   pl_result, pl_calls>>

\* _call_gemini, lines 349-372: one candidate model
GeminiCall(r) ==
    /\ pl_pc = "gemini"
    /\ pl_calls' = Append(pl_calls, <<"gemini", pl_model>>)
    /\ IF GeminiAccept(r) # None
       THEN /\ pl_raw' = [tier |-> "gemini", claimed |-> r.queue_size]
            /\ pl_result' = Finish(pl_entry, GeminiAccept(r))
            /\ pl_pc' = "done"
            /\ UNCHANGED pl_model
       ELSE /\ pl_pc' = IF pl_model < NumCandidates THEN "gemini" ELSE "local"
            /\ pl_model' = IF pl_model < NumCandidates THEN pl_model + 1 ELSE pl_model
            /\ UNCHANGED <<pl_raw, pl_result>>
    /\ UNCHANGED <<pl_entry, pl_request, pl_prev, pl_playlist, pl_cfg>>

\* _call_ai, lines 392-401 with no LOCAL_LLM_BASE_URL, then the entry's fallback
LocalSkip ==
    /\ pl_pc = "local"
    /\ ~pl_cfg.local_url
    /\ \E d \in FallbackSet(pl_entry, pl_request, pl_prev, pl_playlist) : pl_result' = d
    /\ pl_pc' = "done"
    /\ UNCHANGED <<pl_entry, pl_request, pl_prev, pl_playlist, pl_cfg, pl_model,
                   pl_raw, pl_calls>>

\* _call_local_llm behind _call_ai, then the entry's own handling of the result
LocalCall(r) ==
    /\ pl_pc = "local"
    /\ pl_cfg.local_url
    /\ pl_calls' = Append(pl_calls, <<IF r.kind = "importError" THEN "import" ELSE "local", 0>>)
    /\ LET parsed == IF r.kind = "text" THEN ParseLocalResponse(r.text) ELSE None
       IN  IF parsed # None
           THEN /\ pl_raw' = [tier |-> "local", claimed |-> LocalClaimed(r.text)]
                /\ pl_result' = Finish(pl_entry, parsed)
           ELSE /\ \E d \in FallbackSet(pl_entry, pl_request, pl_prev, pl_playlist) :
                      pl_result' = d
                /\ UNCHANGED pl_raw
    /\ pl_pc' = "done"
    /\ UNCHANGED <<pl_entry, pl_request, pl_prev, pl_playlist, pl_cfg, pl_model>>

PlannerNext ==
    \/ \E u \in Requests, cfg \in Configs : GetVibeParams(u, cfg)
    \/ \E u \in Prompts, q \in SeqsUpTo(AIQueryStrs, MaxPrev), cfg \in Configs :
          GetContinueParams(u, q, cfg)
    \/ \E p \in PlannerPlaylists \cup LongPlaylists, u \in Prompts, cfg \in Configs :
          GetPlaylistVibeParams(p, u, cfg)
    \/ \E ok \in BOOLEAN : GeminiClient(ok)
    \/ \E r \in GeminiResponses : GeminiCall(r)
    \/ LocalSkip
    \/ \E r \in LocalResponses : LocalCall(r)

\* ------------------------------------- track pool builder (spotify_client.py)
RESULTS_PER_QUERY == 10

SEARCH_PAGES == 5

Track(u, n) == [uri |-> u, name |-> n]

\* _run_single_search over the pages the catalog would answer with: page after
\* page up to SEARCH_PAGES, stopping after a page shorter than RESULTS_PER_QUERY
\* (a failed page is an empty one, _search_page lines 279-285)
RECURSIVE RunPages(_, _)
RunPages(pages, page) ==
    IF page > SEARCH_PAGES \/ page > Len(pages) THEN <<>>
    ELSE IF Len(pages[page]) < RESULTS_PER_QUERY THEN pages[page]
    ELSE pages[page] \o RunPages(pages, page + 1)

RunSingleSearch(pages) == RunPages(pages, 1)

RECURSIVE DedupFrom(_, _)
DedupFrom(tracks, seen) ==
    IF tracks = <<>> THEN <<>>
    ELSE IF Head(tracks).uri # "" /\ Head(tracks).uri \notin seen
         THEN <<Head(tracks)>> \o DedupFrom(Tail(tracks), seen \cup {Head(tracks).uri})
         ELSE DedupFrom(Tail(tracks), seen)

RECURSIVE DedupKeepLastFrom(_, _)
DedupKeepLastFrom(tracks, seen) ==
    IF tracks = <<>> THEN <<>>
    ELSE LET t == tracks[Len(tracks)]
             rest == SubSeq(tracks, 1, Len(tracks) - 1)
         IN  IF t.uri # "" /\ t.uri \notin seen
             THEN DedupKeepLastFrom(rest, seen \cup {t.uri}) \o <<t>>
             ELSE DedupKeepLastFrom(rest, seen)

DedupKeepLast(tracks, seen) == DedupKeepLastFrom(tracks, seen)

\* the loop "if uri and uri not in seen: seen.add(uri); unique.append(track)"
\* (lines 432-438, and 388-392 / 406-410 with the uris seen so far)
Dedup(tracks, seen) == DedupFrom(tracks, seen)

Uris(tracks) == {tracks[i].uri : i \in 1..Len(tracks)}

\* list.sort(key=score, reverse=True): stable, by decreasing score
RECURSIVE InsertDesc(_, _, _)
InsertDesc(sorted, i, score) ==
    IF sorted = <<>> THEN <<i>>
    ELSE IF score[Head(sorted)] >= score[i]
         THEN <<Head(sorted)>> \o InsertDesc(Tail(sorted), i, score)
         ELSE <<i>> \o sorted

RECURSIVE SortedIdx(_, _)
SortedIdx(n, score) ==
    IF n = 0 THEN <<>> ELSE InsertDesc(SortedIdx(n - 1, score), n, score)

\* score_tracks: with learning disabled the list comes back as it is
ScoreTracks(tracks, learning, score) ==
    IF ~learning THEN tracks
    ELSE LET idx == SortedIdx(Len(tracks), score)
         IN  [i \in 1..Len(tracks) |-> tracks[idx[i]]]

Scores == {0, 1}

\* the orders the pool may come back in: random.shuffle without a centroid,
\* score_tracks with one (the scores are the embedding model's)
TrackOrders(unique) ==
    {[i \in 1..Len(unique) |-> unique[p[i]]] : p \in Orderings(1..Len(unique))}
    \cup {ScoreTracks(unique, l, sc) : l \in BOOLEAN, sc \in [1..Len(unique) -> Scores]}

Shuffles(tracks) ==
    {[i \in 1..Len(tracks) |-> tracks[p[i]]] : p \in Orderings(1..Len(tracks))}

VARIABLES pb_pc, pb_mode, pb_queries, pb_target, pb_i, pb_all, pb_seen_album_ids,
          pb_raw, pb_out

builderVars == <<pb_pc, pb_mode, pb_queries, pb_target, pb_i, pb_all,
                 pb_seen_album_ids, pb_raw, pb_out>>

BuilderIdle ==
    /\ pb_pc = "idle"
    /\ pb_mode = "track"
    /\ pb_queries = <<>>
    /\ pb_target = 0
    /\ pb_i = 1
    /\ pb_all = <<>>
    /\ pb_seen_album_ids = {}
    /\ pb_raw = <<>>
    /\ pb_out = <<>>

\* entering _build_track_pool / _build_album_pool
BuilderCall(mode, queries, target) ==
    /\ pb_pc' = IF queries = <<>> THEN "rank" ELSE "search"
    /\ pb_mode' = mode
    /\ pb_queries' = queries
    /\ pb_target' = target
    /\ pb_i' = 1
    /\ pb_all' = <<>>
    /\ pb_seen_album_ids' = {}
    /\ pb_raw' = <<>>
    /\ pb_out' = <<>>

AfterQuery ==
    /\ pb_i' = pb_i + 1
    /\ pb_pc' = IF pb_i = Len(pb_queries) THEN "rank" ELSE "search"

\* _build_track_pool, lines 428-429: one query
TrackQuery(pages) ==
    /\ pb_pc = "search"
    /\ pb_mode = "track"
    /\ pb_all' = pb_all \o RunSingleSearch(pages)
    /\ pb_raw' = pb_raw \o RunSingleSearch(pages)
    /\ AfterQuery
    /\ UNCHANGED <<pb_mode, pb_queries, pb_target, pb_seen_album_ids, pb_out>>

\* _build_album_pool, lines 384-410: one query; albums is the answer of
\* _search_albums, pages the answer to the fallback track search and
\* album_tracks the answer of _fetch_album_tracks for the top album
AlbumQuery(albums, pages, album_tracks) ==
    /\ pb_pc = "search"
    /\ pb_mode = "album"
    /\ IF albums = <<>>
       THEN /\ pb_all' = pb_all \o Dedup(RunSingleSearch(pages), Uris(pb_all))
            /\ pb_raw' = pb_raw \o RunSingleSearch(pages)
            /\ UNCHANGED pb_seen_album_ids
       ELSE IF albums[1] = "" \/ albums[1] \in pb_seen_album_ids
            THEN UNCHANGED <<pb_all, pb_raw, pb_seen_album_ids>>
            ELSE /\ pb_seen_album_ids' = pb_seen_album_ids \cup {albums[1]}
                 /\ pb_all' = pb_all \o Dedup(album_tracks, Uris(pb_all))
                 /\ pb_raw' = pb_raw \o album_tracks
    /\ AfterQuery
    /\ UNCHANGED <<pb_mode, pb_queries, pb_target, pb_out>>

\* _build_track_pool, lines 431-450: dedup, rerank or shuffle, truncate
TrackRank ==
    /\ pb_pc = "rank"
    /\ pb_mode = "track"
    /\ \E ordered \in TrackOrders(Dedup(pb_all, {})) : pb_out' = Prefix(ordered, pb_target)
    /\ pb_pc' = "done"
    /\ UNCHANGED <<pb_mode, pb_queries, pb_target, pb_i, pb_all, pb_seen_album_ids, pb_raw>>

\* _build_album_pool, lines 412-414: shuffle, truncate
AlbumRank ==
    /\ pb_pc = "rank"
    /\ pb_mode = "album"
    /\ \E ordered \in Shuffles(pb_all) : pb_out' = Prefix(ordered, pb_target)
    /\ pb_pc' = "done"
    /\ UNCHANGED <<pb_mode, pb_queries, pb_target, pb_i, pb_all, pb_seen_album_ids, pb_raw>>

AlbumResults == {<<>>, <<"">>, <<"A">>, <<"B">>}

\* the pool builder on its own: build(queries, target, mode)
PoolTracks == {Track("", "n1"), Track("u1", "n1"), Track("u1", "n2"), Track("u2", "n1")}

PoolAnswers == SeqsUpTo(PoolTracks, PoolPageLen)

PoolQueries == {<<>>, <<<<"b">>>>, <<<<"b">>, <<"a", "b">>>>}

PoolTargets == {1, 2, 200}

RequestTargets == {1, 12, 200}

Build(mode, queries, target) ==
    /\ pb_pc = "idle"
    /\ BuilderCall(mode, queries, target)

\* ------------------------------------ playback orchestrator (spotify_client.py)
POLL_SECONDS == 15

PlayClampHi == 100

MixedClampHi == 200

StringQueueSize == 50

PoolFactor == 2

MixedPoolFactor == 3

\* PlayResult
PlayResult(ok, msg, qs, label, n, run) ==
    [success |-> ok, message |-> msg, queries |-> qs, first_track |-> label,
     track_count |-> n, queries_run |-> run]

Fail(msg) == PlayResult(FALSE, msg, <<>>, "", 0, 0)

NO_DEVICE == "No Spotify device found. Tried to launch Spotify but no device appeared."

\* [t for t in tracks if t.get("uri") not in uris]
Without(tracks, uris) == SelectSeq(tracks, LAMBDA t : t.uri \notin uris)

InterleaveSearchFirst(P, S) ==
    LET n == Min2(Len(P), Len(S))
    IN  [i \in 1..(2 * n) |-> IF i % 2 = 1 THEN S[(i + 1) \div 2] ELSE P[i \div 2]]
        \o SubSeq(P, n + 1, Len(P)) \o SubSeq(S, n + 1, Len(S))

\* search_and_play_mixed, lines 585-592: the loop over pi and si
RECURSIVE InterleaveFrom(_, _, _, _)
InterleaveFrom(P, S, pi, si) ==
    IF ~(pi <= Len(P) \/ si <= Len(S)) THEN <<>>
    ELSE (IF pi <= Len(P) THEN <<P[pi]>> ELSE <<>>)
         \o (IF si <= Len(S) THEN <<S[si]>> ELSE <<>>)
         \o InterleaveFrom(P, S, IF pi <= Len(P) THEN pi + 1 ELSE pi,
                                 IF si <= Len(S) THEN si + 1 ELSE si)

Interleave(P, S) == InterleaveFrom(P, S, 1, 1)

\* what directives say once unpacked (lines 656-663)
DirQueries(dir) == IF dir.kind = "obj" THEN dir.queries ELSE <<dir.text>>

DirQueueSizeNoClamp(dir) == IF dir.kind = "obj" THEN dir.queue_size ELSE StringQueueSize

DirQueueSize(dir) ==
    IF dir.kind = "obj" THEN Max2(1, Min2(PlayClampHi, dir.queue_size)) ELSE StringQueueSize

DirMode(dir) == IF dir.kind = "obj" THEN dir.search_mode ELSE "track"

UriList(tracks) == [i \in 1..Len(tracks) |-> tracks[i].uri]

VARIABLES sp_client, last_queries, played_uris,
          py_pc, py_call, py_dir, py_mix_ratio, py_sample, py_playlist_uris, py_polls,
          py_launched, py_device_id, py_tracks, py_result, py_issued, py_submitted,
          py_list0, py_pollhit, py_lastlist, py_found, py_ever, py_played0, py_search

sessionVars == <<sp_client, last_queries, played_uris>>

callVars == <<py_pc, py_call, py_dir, py_mix_ratio, py_sample, py_playlist_uris, py_polls,
              py_launched, py_device_id, py_tracks, py_result, py_issued, py_submitted,
              py_list0, py_pollhit, py_lastlist, py_found, py_ever, py_played0, py_search>>

playVars == <<sessionVars, callVars>>

NoDir == [kind |-> "none"]

PlayInit ==
    /\ sp_client = FALSE
    /\ last_queries = <<>>
    /\ played_uris = {}
    /\ py_pc = "idle"
    /\ py_call = "none"
    /\ py_dir = NoDir
    /\ py_mix_ratio = 0
    /\ py_sample = <<>>
    /\ py_playlist_uris = {}
    /\ py_polls = 0
    /\ py_launched = FALSE
    /\ py_device_id = "none"
    /\ py_tracks = <<>>
    /\ py_result = None
    /\ py_issued = FALSE
    /\ py_submitted = <<>>
    /\ py_list0 = "unset"
    /\ py_pollhit = FALSE
    /\ py_lastlist = "unset"
    /\ py_found = {}
    /\ py_ever = {}
    /\ py_played0 = {}
    /\ py_search = <<>>

\* a call's locals when it is entered
EnterCall(call, dir) ==
    /\ py_pc = "idle"
    /\ pb_pc = "idle"
    /\ py_call' = call
    /\ py_dir' = dir
    /\ py_polls' = 0
    /\ py_launched' = FALSE
    /\ py_device_id' = "none"
    /\ py_tracks' = <<>>
    /\ py_issued' = FALSE
    /\ py_submitted' = <<>>
    /\ py_list0' = "unset"
    /\ py_pollhit' = FALSE
    /\ py_lastlist' = "unset"
    /\ py_found' = {}
    /\ py_played0' = played_uris
    /\ py_search' = <<>>
    /\ UNCHANGED py_ever

\* return PlayResult(success=False, ...)
ReturnFail(msg) ==
    /\ py_result' = Fail(msg)
    /\ py_pc' = "done"

\* search_and_play, lines 632-641: _get_client() builds the client once
SearchAndPlay(dir, auth_ok) ==
    /\ EnterCall("play", dir)
    /\ py_mix_ratio' = 0
    /\ py_sample' = <<>>
    /\ py_playlist_uris' = {}
    /\ sp_client' = (sp_client \/ auth_ok)
    /\ py_pc' = IF sp_client \/ auth_ok THEN "device0" ELSE "done"
    /\ py_result' = IF sp_client \/ auth_ok THEN None ELSE Fail("Authentication failed")
    /\ UNCHANGED <<last_queries, played_uris, builderVars>>

\* the queue split of search_and_play_mixed, lines 570-572 (mix_ratio in percent)
MixedQueueSize(dir) == Max2(1, Min2(MixedClampHi, dir.queue_size))

NPlaylist(dir, ratio) == (MixedQueueSize(dir) * ratio) \div 100

NSearchWhole(dir, ratio) == MixedQueueSize(dir)

NSearch(dir, ratio) == MixedQueueSize(dir) - NPlaylist(dir, ratio)

\* search_and_play_mixed, lines 568-581: the playlist sample, then the pool
SearchAndPlayMixed(playlist_tracks, dir, mix_ratio) ==
    /\ EnterCall("mixed", dir)
    /\ py_mix_ratio' = mix_ratio
    /\ \E shuffled \in Shuffles(playlist_tracks) :
          py_sample' = Prefix(shuffled, NPlaylist(dir, mix_ratio))
    /\ py_playlist_uris' = Uris(playlist_tracks)
    /\ BuilderCall("track", dir.queries, NSearch(dir, mix_ratio) * MixedPoolFactor)
    /\ py_pc' = "building"
    /\ py_result' = None
    /\ UNCHANGED sessionVars

\* where a call goes once it holds a device id
AfterDevice == IF py_call = "play" THEN "unpack" ELSE "playback"

Listings == {"raise", "none", "dev"}

\* what _find_device_id returns for a listing (lines 242-247)
DeviceIdOf(l) == IF l = "dev" THEN "d1" ELSE "none"

FinalDeviceIdKept(l) == "d1"

\* "if self.ensure_spotify_open(): device_id = self._find_device_id()"
FinalDeviceId(l) == DeviceIdOf(l)

\* one call of _find_device_id (lines 240-247): it raises, lists nothing, or
\* yields the active or the first device; the first call of a session that
\* does not raise has built the client
Listed(l) ==
    /\ py_lastlist' = l
    /\ sp_client' = (sp_client \/ l # "raise")
    /\ UNCHANGED <<last_queries, played_uris>>

callFrame == <<py_call, py_dir, py_mix_ratio, py_sample, py_playlist_uris, py_tracks,
               py_issued, py_submitted, py_found, py_ever, py_played0, py_search>>

\* search_and_play line 644 / search_and_play_mixed line 597
DeviceInitial(l) ==
    /\ py_pc = "device0"
    /\ Listed(l)
    /\ py_list0' = l
    /\ py_device_id' = DeviceIdOf(l)
    /\ py_pc' = CASE l = "raise" -> "raised" [] l = "dev" -> AfterDevice [] l = "none" -> "ensure0"
    /\ UNCHANGED <<callFrame, py_polls, py_launched, py_pollhit, py_result, builderVars>>

\* ensure_spotify_open, lines 152-153
EnsureRecheck(l) ==
    /\ py_pc = "ensure0"
    /\ Listed(l)
    /\ py_pc' = CASE l = "raise" -> "raised" [] l = "dev" -> "device1" [] l = "none" -> "launch"
    /\ UNCHANGED <<callFrame, py_polls, py_launched, py_device_id, py_pollhit, py_list0,
                   py_result, builderVars>>

LaunchCommandCounts == {0, 1, 3}

\* ensure_spotify_open, lines 160-194: the platform's commands in order;
\* started is the first command that starts (0: none does)
Launch(ncmds, started) ==
    /\ py_pc = "launch"
    /\ started \in 0..ncmds
    /\ py_launched' = (started > 0)
    /\ IF started > 0
       THEN py_pc' = "poll" /\ UNCHANGED py_result
       ELSE ReturnFail(NO_DEVICE)
    /\ UNCHANGED <<sessionVars, callFrame, py_polls, py_device_id, py_pollhit, py_list0,
                   py_lastlist, builderVars>>

\* ensure_spotify_open, lines 197-204: one round of the poll loop
Poll(l) ==
    /\ py_pc = "poll"
    /\ py_polls < POLL_SECONDS
    /\ py_polls' = py_polls + 1
    /\ Listed(l)
    /\ py_pollhit' = (l = "dev")
    /\ CASE l = "raise" -> py_pc' = "raised" /\ UNCHANGED py_result
         [] l = "dev" -> py_pc' = "device1" /\ UNCHANGED py_result
         [] l = "none" -> IF py_polls + 1 = POLL_SECONDS
                          THEN ReturnFail(NO_DEVICE)
                          ELSE py_pc' = "poll" /\ UNCHANGED py_result
    /\ UNCHANGED <<callFrame, py_launched, py_device_id, py_list0, builderVars>>

\* search_and_play lines 647-653 / search_and_play_mixed lines 599-605
DeviceFinal(l) ==
    /\ py_pc = "device1"
    /\ Listed(l)
    /\ py_device_id' = IF l = "raise" THEN py_device_id ELSE FinalDeviceId(l)
    /\ IF l = "raise" THEN py_pc' = "raised" /\ UNCHANGED py_result
       ELSE IF FinalDeviceId(l) # "none" THEN py_pc' = AfterDevice /\ UNCHANGED py_result
       ELSE ReturnFail(NO_DEVICE)
    /\ UNCHANGED <<callFrame, py_polls, py_launched, py_pollhit, py_list0, builderVars>>

\* search_and_play, lines 655-673
Unpack ==
    /\ py_pc = "unpack"
    /\ IF DirQueries(py_dir) = <<>>
       THEN /\ ReturnFail("No search queries were generated.")
            /\ UNCHANGED builderVars
       ELSE /\ BuilderCall(DirMode(py_dir), DirQueries(py_dir), DirQueueSize(py_dir) * PoolFactor)
            /\ py_pc' = "building"
            /\ UNCHANGED py_result
    /\ UNCHANGED <<sessionVars, callFrame, py_polls, py_launched, py_device_id, py_pollhit,
                   py_list0, py_lastlist>>

\* the pool builder has returned: its locals are gone
BuilderReturn ==
    /\ pb_pc = "done"
    /\ pb_pc' = "idle"
    /\ pb_mode' = "track"
    /\ pb_queries' = <<>>
    /\ pb_target' = 0
    /\ pb_i' = 1
    /\ pb_all' = <<>>
    /\ pb_seen_album_ids' = {}
    /\ pb_raw' = <<>>
    /\ pb_out' = <<>>

NoTracksFoundNoList(queries) == Fail("No tracks found.")

\* search_and_play, lines 677-681: the message names the queries tried
NoTracksFound(queries) ==
    PlayResult(FALSE, "No tracks found. Tried queries", queries, "", 0, 0)

FilterPlayedNone(tracks, played) == tracks

\* search_and_play, line 674
FilterPlayed(tracks, played) == Without(tracks, played)

\* search_and_play, lines 674-681
PlayFilter ==
    /\ py_pc = "building"
    /\ py_call = "play"
    /\ BuilderReturn
    /\ py_found' = Uris(pb_out)
    /\ LET tracks == Prefix(FilterPlayed(pb_out, played_uris), DirQueueSize(py_dir))
       IN  /\ py_tracks' = tracks
           /\ IF tracks = <<>>
              THEN /\ py_result' = NoTracksFound(DirQueries(py_dir))
                   /\ py_pc' = "done"
              ELSE /\ py_pc' = "playback"
                   /\ UNCHANGED py_result
    /\ UNCHANGED <<sessionVars, py_call, py_dir, py_mix_ratio, py_sample, py_playlist_uris,
                   py_issued, py_submitted, py_ever, py_played0, py_search,
                   py_polls, py_launched, py_device_id, py_pollhit, py_list0, py_lastlist>>

\* search_and_play_mixed, lines 582-595
MixedQueue ==
    /\ py_pc = "building"
    /\ py_call = "mixed"
    /\ BuilderReturn
    /\ py_found' = Uris(pb_out)
    /\ LET search_pool == Prefix(Without(pb_out, py_playlist_uris), NSearch(py_dir, py_mix_ratio))
           mixed == Interleave(py_sample, search_pool)
       IN  /\ py_tracks' = mixed
           /\ py_search' = search_pool
           /\ IF mixed = <<>>
              THEN ReturnFail("No tracks found to queue.")
              ELSE /\ py_pc' = "device0"
                   /\ UNCHANGED py_result
    /\ UNCHANGED <<sessionVars, py_call, py_dir, py_mix_ratio, py_sample, py_playlist_uris,
                   py_issued, py_submitted, py_ever, py_played0,
                   py_polls, py_launched, py_device_id, py_pollhit, py_list0, py_lastlist>>

PlayedAfterOnly(played, tracks) == Uris(tracks) \ {""}

\* lines 697-700 / 619-622: every non-empty URI of the queue joins played_uris
PlayedAfter(played, tracks) == played \cup (Uris(tracks) \ {""})

\* search_and_play lines 683-712 / search_and_play_mixed lines 607-630:
\* start_playback, then the session state, then (search_and_play only)
\* record_request, which returns or raises
StartPlayback(ok, recorded) ==
    /\ py_pc = "playback"
    /\ (~ok \/ py_call # "play") => recorded
    /\ py_issued' = TRUE
    /\ py_submitted' = UriList(py_tracks)
    /\ py_pc' = IF recorded THEN "done" ELSE "raised"
    /\ IF ok
       THEN /\ last_queries' = IF py_dir.kind = "obj" THEN py_dir.queries ELSE last_queries
            /\ played_uris' = PlayedAfter(played_uris, py_tracks)
            /\ py_ever' = py_ever \cup Uris(py_tracks)
            /\ py_result' = IF recorded
                            THEN PlayResult(TRUE, "Playback started.", <<>>, py_tracks[1].name,
                                            Len(py_tracks), Len(DirQueries(py_dir)))
                            ELSE py_result
       ELSE /\ py_result' = Fail("Playback error")
            /\ UNCHANGED <<last_queries, played_uris, py_ever>>
    /\ UNCHANGED <<sp_client, py_call, py_dir, py_mix_ratio, py_sample, py_playlist_uris,
                   py_tracks, py_found, py_played0, py_search,
                   py_polls, py_launched, py_device_id, py_pollhit, py_list0, py_lastlist,
                   builderVars>>

\* the caller takes the PlayResult, or catches the exception (cli.py lines
\* 104-108, app_ctk.py lines 447-454), and the call's locals are gone
Return ==
    /\ py_pc \in {"done", "raised"}
    /\ py_pc' = "idle"
    /\ py_call' = "none"
    /\ py_dir' = NoDir
    /\ py_mix_ratio' = 0
    /\ py_sample' = <<>>
    /\ py_playlist_uris' = {}
    /\ py_polls' = 0
    /\ py_launched' = FALSE
    /\ py_device_id' = "none"
    /\ py_tracks' = <<>>
    /\ py_result' = None
    /\ py_issued' = FALSE
    /\ py_submitted' = <<>>
    /\ py_list0' = "unset"
    /\ py_pollhit' = FALSE
    /\ py_lastlist' = "unset"
    /\ py_found' = {}
    /\ py_played0' = {}
    /\ py_search' = <<>>
    /\ UNCHANGED <<sessionVars, py_ever, builderVars>>

\* the builder's steps while a call waits for it
BuilderStep(A) == A /\ py_pc = "building" /\ UNCHANGED playVars

PlayTracks == {Track("", "n1"), Track("u1", "n1"), Track("u2", "n1")}

PlayAnswers == SeqsUpTo(PlayTracks, PlayPageLen)

PlayQueryLists == {<<>>, <<<<"b">>>>, <<<<"b">>, <<"a", "b">>>>}

PlaySizes == {0, 2, 150}

PlayDirectives ==
    {[kind |-> "obj", queries |-> q, queue_size |-> n, search_mode |-> m] :
        q \in PlayQueryLists, n \in PlaySizes, m \in {"track", "album"}}
    \cup {[kind |-> "str", text |-> <<"b">>]}

MixedDirectives ==
    {[kind |-> "obj", queries |-> q, queue_size |-> n, search_mode |-> "track"] :
        q \in PlayQueryLists, n \in PlaySizes}

MixPlaylists == SeqsUpTo({Track("u1", "n1"), Track("u2", "n1")}, MaxMixPlaylist)

MixRatios == {50}

\* the interleaving of search_and_play_mixed on its own
VARIABLES mx_P, mx_S, mx_mixed, mx_done

mixVars == <<mx_P, mx_S, mx_mixed, mx_done>>

MixIdle ==
    /\ mx_P = <<>>
    /\ mx_S = <<>>
    /\ mx_mixed = <<>>
    /\ mx_done = FALSE

MixPlaylistTracks == {Track("p1", "n1"), Track("p2", "n1")}

MixSearchTracks == {Track("s1", "n1"), Track("s2", "n1"), Track("s3", "n1")}

\* the playlist sample may repeat a URI; the search pool is deduplicated
MixSamples == SeqsUpTo(MixPlaylistTracks, MaxMix)

MixPools ==
    {s \in SeqsUpTo(MixSearchTracks, MaxMix) : \A i, j \in 1..Len(s) : i # j => s[i] # s[j]}

\* lines 585-592 applied to playlist_sample and search_pool
ApplyInterleave ==
    /\ ~mx_done
    /\ mx_mixed' = Interleave(mx_P, mx_S)
    /\ mx_done' = TRUE
    /\ UNCHANGED <<mx_P, mx_S>>

\* ------------------------------------------------ skip detector (preferences.py)
SKIP_THRESHOLD == 20

\* a track dict of get_current_track, by the keys the detector reads
DetTrack(i, a) == [id |-> i, artist |-> a]

NoTrack == DetTrack("", "")

DetTracks == {DetTrack("t1", "a1"), DetTrack("t2", "a2")}

\* the polling threads that can be alive at once in the model
Loops == {1, 2}

\* the instants at which something happens
TimeSteps == {19, 20}

VARIABLES sd_running, sd_current_id, sd_current_track, sd_start_time,
          sd_pc, sd_loc, sd_now, sd_starts

detectorVars == <<sd_running, sd_current_id, sd_current_track, sd_start_time,
                  sd_pc, sd_loc, sd_now, sd_starts>>

\* a tick's locals: the track it got, and what it read of the baseline when
\* it compared (base, elapsed) and what it handed to record_skip (emit)
NoTick == [track |-> NoTrack, base |-> NoTrack, elapsed |-> 0, emit |-> NoTrack, error |-> FALSE]

\* SkipDetector.__init__
DetectorInit ==
    /\ sd_running = FALSE
    /\ sd_current_id = ""
    /\ sd_current_track = NoTrack
    /\ sd_start_time = 0
    /\ sd_pc = [l \in Loops |-> "none"]
    /\ sd_loc = [l \in Loops |-> NoTick]
    /\ sd_now = 0
    /\ sd_starts = 0

StartSpawnsAlways == TRUE

\* start(), line 399: "if self._running: return"
StartSpawns == ~sd_running

\* start(), from the thread that owns the window (app_ctk.py lines 296, 474)
Start ==
    /\ sd_starts < MaxStarts
    /\ sd_starts' = sd_starts + 1
    /\ IF StartSpawns
       THEN /\ \E l \in Loops : sd_pc[l] \in {"none", "exited"}
            /\ sd_running' = TRUE
            /\ LET l == CHOOSE k \in Loops : sd_pc[k] \in {"none", "exited"}
               IN  /\ sd_pc' = [sd_pc EXCEPT ![l] = "top"]
                   /\ sd_loc' = [sd_loc EXCEPT ![l] = NoTick]
       ELSE UNCHANGED <<sd_running, sd_pc, sd_loc>>
    /\ UNCHANGED <<sd_current_id, sd_current_track, sd_start_time, sd_now>>

\* stop()
Stop ==
    /\ sd_running
    /\ sd_running' = FALSE
    /\ UNCHANGED <<sd_current_id, sd_current_track, sd_start_time, sd_pc, sd_loc,
                   sd_now, sd_starts>>

SetBaselineTimeOnly(track) ==
    /\ sd_start_time' = sd_now
    /\ UNCHANGED <<sd_current_id, sd_current_track>>

\* the three assignments of a baseline (lines 414-416, 435-437, 448-450)
SetBaseline(track) ==
    /\ sd_current_id' = track.id
    /\ sd_current_track' = track
    /\ sd_start_time' = sd_now

\* notify_track_started(track), from the caller's thread
NotifyTrackStarted(track) ==
    /\ SetBaseline(track)
    /\ UNCHANGED <<sd_running, sd_pc, sd_loc, sd_now, sd_starts>>

AfterErrorDie == "exited"

\* _loop, lines 422-424: the error is printed, the loop sleeps and goes on
AfterError == "top"

LoopTopForever(l) ==
    /\ sd_pc[l] = "top"
    /\ sd_pc' = [sd_pc EXCEPT ![l] = "poll"]
    /\ sd_loc' = [sd_loc EXCEPT ![l] = NoTick]
    /\ UNCHANGED <<sd_running, sd_current_id, sd_current_track, sd_start_time, sd_now,
                   sd_starts>>

\* _loop, line 419 after the sleep of line 424 (or on entry)
LoopTop(l) ==
    /\ sd_pc[l] = "top"
    /\ sd_pc' = [sd_pc EXCEPT ![l] = IF sd_running THEN "poll" ELSE "exited"]
    /\ sd_loc' = [sd_loc EXCEPT ![l] = NoTick]
    /\ UNCHANGED <<sd_running, sd_current_id, sd_current_track, sd_start_time, sd_now,
                   sd_starts>>

\* what the client's get_current_track hands to _check: an error, None
\* (nothing playing, or an error it caught itself), or a track
DetAnswers ==
    {[kind |-> "raise"], [kind |-> "none"]} \cup {[kind |-> "track", track |-> t] : t \in DetTracks}

\* _check, lines 427-429
GetCurrentTrack(l, r) ==
    /\ sd_pc[l] = "poll"
    /\ CASE r.kind = "raise" ->
              /\ sd_pc' = [sd_pc EXCEPT ![l] = AfterError]
              /\ sd_loc' = [sd_loc EXCEPT ![l].error = TRUE]
         [] r.kind = "none" ->
              /\ sd_pc' = [sd_pc EXCEPT ![l] = "top"]
              /\ UNCHANGED sd_loc
         [] OTHER ->
              /\ sd_pc' = [sd_pc EXCEPT ![l] = "check"]
              /\ sd_loc' = [sd_loc EXCEPT ![l].track = r.track]
    /\ UNCHANGED <<sd_running, sd_current_id, sd_current_track, sd_start_time, sd_now,
                   sd_starts>>

\* _check, lines 431-443: up to the print of line 444
Check(l) ==
    /\ sd_pc[l] = "check"
    /\ LET new_id  == sd_loc[l].track.id
           elapsed == sd_now - sd_start_time
       IN  IF sd_current_id = ""
           THEN /\ SetBaseline(sd_loc[l].track)
                /\ sd_pc' = [sd_pc EXCEPT ![l] = "top"]
                /\ UNCHANGED sd_loc
           ELSE IF new_id # sd_current_id
           THEN /\ sd_loc' = [sd_loc EXCEPT ![l].base = sd_current_track,
                                            ![l].elapsed = elapsed]
                /\ sd_pc' = [sd_pc EXCEPT ![l] =
                      IF elapsed < SKIP_THRESHOLD /\ sd_current_track # NoTrack
                      THEN "skip" ELSE "rebase"]
                /\ UNCHANGED <<sd_current_id, sd_current_track, sd_start_time>>
           ELSE /\ sd_pc' = [sd_pc EXCEPT ![l] = "top"]
                /\ UNCHANGED <<sd_loc, sd_current_id, sd_current_track, sd_start_time>>
    /\ UNCHANGED <<sd_running, sd_now, sd_starts>>

\* _check, line 445: record_skip(self._current_track), read after the print;
\* record_skip returns or raises
RecordSkip(l, ok) ==
    /\ sd_pc[l] = "skip"
    /\ sd_loc' = [sd_loc EXCEPT ![l].emit = sd_current_track, ![l].error = ~ok]
    /\ sd_pc' = [sd_pc EXCEPT ![l] = IF ok THEN "rebase" ELSE AfterError]
    /\ UNCHANGED <<sd_running, sd_current_id, sd_current_track, sd_start_time, sd_now,
                   sd_starts>>

\* _check, lines 447-450: the new track becomes the baseline
Rebase(l) ==
    /\ sd_pc[l] = "rebase"
    /\ SetBaseline(sd_loc[l].track)
    /\ sd_pc' = [sd_pc EXCEPT ![l] = "top"]
    /\ UNCHANGED <<sd_running, sd_loc, sd_now, sd_starts>>

\* time passes
Advance(d) ==
    /\ sd_now + d <= MaxTime
    /\ sd_now' = sd_now + d
    /\ UNCHANGED <<sd_running, sd_current_id, sd_current_track, sd_start_time, sd_pc,
                   sd_loc, sd_starts>>

\* ------------------------------------------------------------------
\* preferences.py: the preference store
\* ------------------------------------------------------------------
MAX_HISTORY == 500
MAX_REQUESTS == 100

PrefArtists == {"a1", "a2"}

\* tracks handed to record_like / record_skip: id, artist and the embedding
\* of the description "<name> by <artist>" (L2-normalised)
PrefTrack(i, a, v) == [id |-> i, artist |-> a, vec |-> v]

PrefTracks ==
    {PrefTrack(1, "a1", <<1, 0>>), PrefTrack(1001, "a2", <<0, 1>>),
     PrefTrack(1002, "a1", <<0, 1>>)}

\* taste_centroid: None, or the vector num[i] / den
NoCentroid == [num |-> <<0, 0>>, den |-> 0]

\* _empty_prefs()
EmptyPrefs ==
    [liked_artists   |-> [a \in PrefArtists |-> 0],
     skipped_artists |-> [a \in PrefArtists |-> 0],
     liked_tracks    |-> <<>>,
     skipped_tracks  |-> <<>>,
     request_history |-> <<>>,
     taste_centroid  |-> NoCentroid]

\* a profile left by earlier sessions: liked_tracks one short of its cap,
\* skipped_tracks at its cap, request_history one short of its cap
LongPrefs ==
    [liked_artists   |-> [a \in PrefArtists |-> 1],
     skipped_artists |-> [a \in PrefArtists |-> IF a = "a1" THEN 1 ELSE 0],
     liked_tracks    |-> [i \in 1..(MAX_HISTORY - 1) |-> i],
     skipped_tracks  |-> [i \in 1..MAX_HISTORY |-> i],
     request_history |-> [i \in 1..(MAX_REQUESTS - 1) |-> i],
     taste_centroid  |-> [num |-> <<1, 0>>, den |-> 1]]

\* the preferences file: absent, unreadable (empty, truncated by
\* open(.., "w"), or overwritten by two writers at once), or a JSON document;
\* null_history marks a document whose "request_history" is null, which
\* json.loads and merged.update (lines 88-91) accept
NoFile == [state |-> "absent", prefs |-> EmptyPrefs, null_history |-> FALSE]
Unreadable == [state |-> "unreadable", prefs |-> EmptyPrefs, null_history |-> FALSE]
Document(p) == [state |-> "doc", prefs |-> p, null_history |-> FALSE]
Misshapen(p) == [state |-> "doc", prefs |-> p, null_history |-> TRUE]

Jobs == 1..MaxJobs

VARIABLES pf_learning, pf_disk, pf_job, pf_calls, pf_sequential, pf_log, pf_done,
          pf_ranked

prefsVars == <<pf_learning, pf_disk, pf_job, pf_calls, pf_sequential, pf_log, pf_done,
               pf_ranked>>

IdleJob ==
    [pc |-> "idle", kind |-> "none", track |-> PrefTrack(0, "a1", <<0, 0>>),
     positive |-> TRUE, embedded |-> FALSE, loaded |-> EmptyPrefs, prefs |-> EmptyPrefs,
     null_history |-> FALSE, raised |-> "none", between |-> {}]

\* the call, or the thread, of job j ends with an exception
Raised(j) == [IdleJob EXCEPT !.raised = pf_job[j].kind]

NotRanked ==
    [scored |-> FALSE, centroid |-> NoCentroid, skipped |-> {}, tracks |-> <<>>, out |-> <<>>]

PrefsIdle ==
    /\ pf_learning = TRUE
    /\ pf_disk = NoFile
    /\ pf_job = [j \in Jobs |-> IdleJob]
    /\ pf_calls = 0
    /\ pf_sequential = TRUE
    /\ pf_log = <<>>
    /\ pf_done = {}
    /\ pf_ranked = NotRanked

\* load_preferences()
LoadPreferences == IF pf_disk.state = "doc" THEN pf_disk.prefs ELSE EmptyPrefs

\* s[-n:]
LastNOldest(s, n) == IF Len(s) <= n THEN s ELSE SubSeq(s, 1, n)

LastN(s, n) == IF Len(s) <= n THEN s ELSE SubSeq(s, Len(s) - n + 1, Len(s))

Ids(s) == {s[i] : i \in DOMAIN s}

LikeOfCountNew(prefs, t) ==
    IF t.id \in Ids(prefs.liked_tracks) THEN prefs
    ELSE [prefs EXCEPT !.liked_artists[t.artist] = @ + 1,
                       !.liked_tracks = LastN(Append(@, t.id), MAX_HISTORY)]

\* record_like, lines 113-129
LikeOf(prefs, t) ==
    [prefs EXCEPT !.liked_artists[t.artist] = @ + 1,
                  !.liked_tracks = IF t.id \in Ids(@) THEN @
                                   ELSE LastN(Append(@, t.id), MAX_HISTORY)]

\* record_skip, lines 142-156
SkipOf(prefs, t) ==
    [prefs EXCEPT !.skipped_artists[t.artist] = @ + 1,
                  !.skipped_tracks = IF t.id \in Ids(@) THEN @
                                     ELSE LastN(Append(@, t.id), MAX_HISTORY)]

\* record_request, lines 166-171; the entry is named by its timestamp
RequestOf(prefs, stamp) ==
    [prefs EXCEPT !.request_history = LastN(Append(@, stamp), MAX_REQUESTS)]

\* _update_centroid, lines 302-310: 0.9 * c + alpha * v in exact arithmetic
EmaReplace(c, v, positive) == [num |-> v, den |-> 1]

Ema(c, v, positive) ==
    IF c.den = 0 THEN [num |-> v, den |-> 1]
    ELSE IF positive
         THEN [num |-> [i \in DOMAIN v |-> 9 * c.num[i] + v[i] * c.den], den |-> 10 * c.den]
         ELSE [num |-> [i \in DOMAIN v |-> 18 * c.num[i] - v[i] * c.den], den |-> 20 * c.den]

\* _update_centroid: nothing changes when the embedding is unavailable
UpdateCentroid(prefs, v, embedded, positive) ==
    IF ~embedded THEN prefs
    ELSE [prefs EXCEPT !.taste_centroid = Ema(@, v, positive)]

\* a call enters one of the mutating functions; with learning disabled
\* (lines 110, 139, 163, 316) it returns at once
Enter(j, kind, t, positive) ==
    /\ pf_calls < MaxCalls
    /\ pf_job[j].pc = "idle"
    /\ pf_calls' = pf_calls + 1
    /\ IF pf_learning
       THEN /\ pf_job' = [pf_job EXCEPT ![j] =
                   [IdleJob EXCEPT !.pc = "load", !.kind = kind, !.track = t,
                                   !.positive = positive]]
            /\ pf_sequential' = (pf_sequential /\ \A k \in Jobs : pf_job[k].pc = "idle")
       ELSE UNCHANGED <<pf_job, pf_sequential>>
    /\ UNCHANGED <<pf_learning, pf_disk, pf_log, pf_done, pf_ranked>>

CallRecordLike(j, t) == Enter(j, "like", t, TRUE)

CallRecordSkip(j, t) == Enter(j, "skip", t, TRUE)

CallRecordRequest(j) == Enter(j, "request", PrefTrack(2000 + pf_calls, "a1", <<0, 0>>), TRUE)

CallUpdateCentroidAsync(j, t, positive) == Enter(j, "centroid", t, positive)

\* load_preferences() and the changes made to the loaded dict; on a null
\* "request_history" the append of line 165 raises AttributeError
LoadAndModify(j, embedded) ==
    /\ pf_job[j].pc = "load"
    /\ (pf_job[j].kind # "centroid") => embedded
    /\ LET job == pf_job[j]
           old == LoadPreferences
           new == CASE job.kind = "like" -> LikeOf(old, job.track)
                    [] job.kind = "skip" -> SkipOf(old, job.track)
                    [] job.kind = "request" -> RequestOf(old, job.track.id)
                    [] OTHER -> UpdateCentroid(old, job.track.vec, embedded, job.positive)
       IN  IF job.kind = "request" /\ pf_disk.null_history
           THEN pf_job' = [pf_job EXCEPT ![j] = Raised(j)]
           ELSE pf_job' = [pf_job EXCEPT ![j].pc = "open", ![j].loaded = old,
                                         ![j].prefs = new, ![j].embedded = embedded,
                                         ![j].null_history = pf_disk.null_history]
    /\ UNCHANGED <<pf_learning, pf_disk, pf_calls, pf_sequential, pf_log, pf_done, pf_ranked>>

\* save_preferences, line 100: PREF_FILE.parent.mkdir(parents=True,
\* exist_ok=True), outside the try, succeeds when the directory exists and
\* raises when it cannot be made; line 102: open(PREF_FILE, "w") truncates
\* the file
SaveOpen(j, mkdir_ok) ==
    /\ pf_job[j].pc = "open"
    /\ (pf_disk.state # "absent") => mkdir_ok
    /\ IF mkdir_ok
       THEN /\ pf_disk' = Unreadable
            /\ pf_job' = [pf_job EXCEPT ![j].pc = "write"]
       ELSE /\ pf_disk' = pf_disk
            /\ pf_job' = [pf_job EXCEPT ![j] = Raised(j)]
    /\ UNCHANGED <<pf_learning, pf_calls, pf_sequential, pf_log, pf_done, pf_ranked>>

\* what job other has seen written since it loaded: the entry of a like, skip
\* or request whose save completed while other was between its
\* load_preferences and the end of its save_preferences
SeenBetween(other, job, clean) ==
    IF clean /\ job.kind \in {"like", "skip", "request"} /\ other.pc \in {"open", "write"}
    THEN [other EXCEPT !.between = @ \cup {[kind |-> job.kind, id |-> job.track.id]}]
    ELSE other

\* save_preferences, line 103: json.dump; written over another writer's
\* document the file holds this document or a mixture of the two. After its
\* save record_like starts the centroid thread (line 134).
SaveWrite(j, clean) ==
    /\ pf_job[j].pc = "write"
    /\ (pf_disk.state # "doc") => clean
    /\ LET job == pf_job[j]
       IN  /\ pf_disk' = IF clean
                        THEN [Document(job.prefs) EXCEPT !.null_history = job.null_history]
                        ELSE Unreadable
           /\ pf_job' = [k \in Jobs |->
                  IF k = j
                  THEN IF job.kind = "like"
                       THEN [IdleJob EXCEPT !.pc = "load", !.kind = "centroid",
                                            !.track = job.track, !.positive = TRUE]
                       ELSE IdleJob
                  ELSE SeenBetween(pf_job[k], job, clean)]
           /\ pf_log' = IF job.kind = "centroid" /\ job.embedded
                        THEN Append(pf_log, [vec |-> job.track.vec, positive |-> job.positive])
                        ELSE pf_log
           /\ pf_done' = IF job.kind \in {"like", "skip", "request"}
                         THEN pf_done \cup {[kind |-> job.kind, id |-> job.track.id]}
                         ELSE pf_done
    /\ UNCHANGED <<pf_learning, pf_calls, pf_sequential, pf_ranked>>

\* ---- score_tracks
\* a candidate: its primary artist ("" when it has none) and the embedding
\* of its description, when the embedder gives one
Candidate(a, v, e) == [artist |-> a, vec |-> v, embedded |-> e]

Candidates ==
    {Candidate("a1", <<1, 0>>, TRUE), Candidate("a2", <<0, 1>>, TRUE),
     Candidate("a1", <<0, 1>>, FALSE), Candidate("", <<1, 0>>, TRUE)}

CandidateLists ==
    {<<c1, c2>> : c1, c2 \in Candidates} \cup {<<c1, c2, c1>> : c1, c2 \in Candidates}

\* _cosine_similarity(centroid, vec), as the fraction n / d
CosineSimilarity(c, v) ==
    [n |-> c.num[1] * v[1] + c.num[2] * v[2], d |-> c.den]

\* lines 352-357
BaseScore(c, cand) ==
    IF cand.embedded
    THEN LET sim == CosineSimilarity(c, cand.vec) IN [n |-> sim.n + sim.d, d |-> 2 * sim.d]
    ELSE [n |-> 1, d |-> 2]

\* line 361: score *= 0.3
PenaliseHalf(s) == [n |-> s.n, d |-> 2 * s.d]

Penalise(s) == [n |-> 3 * s.n, d |-> 10 * s.d]

SkippedArtists(prefs) == {a \in PrefArtists : prefs.skipped_artists[a] > 0}

ScoreOf(prefs, cand) ==
    LET base == BaseScore(prefs.taste_centroid, cand)
    IN  IF cand.artist \in SkippedArtists(prefs) THEN Penalise(base) ELSE base

Greater(a, b) == a.n * b.d > b.n * a.d

\* tracks.sort(key = score, reverse = True): stable
RECURSIVE InsertByScore(_, _)
InsertByScore(e, s) ==
    IF s = <<>> THEN <<e>>
    ELSE IF Greater(e.score, s[1].score) THEN <<e>> \o s
    ELSE <<s[1]>> \o InsertByScore(e, Tail(s))

RECURSIVE SortByScoreUnstable(_)
SortByScoreUnstable(s) ==
    IF s = <<>> THEN <<>>
    ELSE InsertByScore(s[1], SortByScoreUnstable(Tail(s)))

RECURSIVE SortByScore(_)
SortByScore(s) ==
    IF s = <<>> THEN <<>>
    ELSE InsertByScore(s[Len(s)], SortByScore(SubSeq(s, 1, Len(s) - 1)))

\* _build_track_pool, lines 444-446: load_preferences() and score_tracks,
\* here with the scores worked out from the profile
LoadAndScore(tracks) ==
    /\ pf_calls < MaxCalls
    /\ pf_calls' = pf_calls + 1
    /\ LET prefs == LoadPreferences
       IN  pf_ranked' =
             IF ~pf_learning \/ prefs.taste_centroid.den = 0
             THEN [NotRanked EXCEPT !.tracks = tracks, !.out =
                      [i \in DOMAIN tracks |-> [cand |-> tracks[i], pos |-> i,
                                                score |-> [n |-> 0, d |-> 1]]]]
             ELSE [scored   |-> TRUE,
                   tracks   |-> tracks,
                   centroid |-> prefs.taste_centroid,
                   skipped  |-> SkippedArtists(prefs),
                   out      |-> SortByScore(
                      [i \in DOMAIN tracks |-> [cand |-> tracks[i], pos |-> i,
                                                score |-> ScoreOf(prefs, tracks[i])]])]
    /\ UNCHANGED <<pf_learning, pf_disk, pf_job, pf_sequential, pf_log, pf_done>>

\* ------------------------------------------------------------------
\* preferences.py: the embedding model, _get_embedder
\* ------------------------------------------------------------------
Threads == 1..MaxThreads

\* em_embedder: the global _embedder, 0 for None, else the number of the
\* instance; em_lock: the holder of _embedder_lock, 0 when free; em_ret: what
\* the thread's last call returned (NotReturned before any, 0 for None,
\* Raising when it ended with an exception); em_built: constructions done
VARIABLES em_installed, em_embedder, em_lock, em_pc, em_ret, em_built, em_calls

embedVars == <<em_installed, em_embedder, em_lock, em_pc, em_ret, em_built, em_calls>>

NotReturned == 0 - 1
Raising == 0 - 2

EmbedIdle ==
    /\ em_installed = TRUE
    /\ em_embedder = 0
    /\ em_lock = 0
    /\ em_pc = [t \in Threads |-> "idle"]
    /\ em_ret = [t \in Threads |-> NotReturned]
    /\ em_built = 0
    /\ em_calls = 0

\* a thread calls _get_embedder (from _embed, line 267)
GetEmbedder(t) ==
    /\ em_calls < MaxEmbedCalls
    /\ em_pc[t] = "idle"
    /\ em_calls' = em_calls + 1
    /\ em_pc' = [em_pc EXCEPT ![t] = "fast"]
    /\ UNCHANGED <<em_installed, em_embedder, em_lock, em_ret, em_built>>

\* lines 226-227: the test before the lock
FastPath(t) ==
    /\ em_pc[t] = "fast"
    /\ IF em_embedder # 0
       THEN /\ em_pc' = [em_pc EXCEPT ![t] = "idle"]
            /\ em_ret' = [em_ret EXCEPT ![t] = em_embedder]
       ELSE /\ em_pc' = [em_pc EXCEPT ![t] = "acquire"]
            /\ UNCHANGED em_ret
    /\ UNCHANGED <<em_installed, em_embedder, em_lock, em_built, em_calls>>

\* line 228: with _embedder_lock
Acquire(t) ==
    /\ em_pc[t] = "acquire"
    /\ em_lock = 0
    /\ em_lock' = t
    /\ em_pc' = [em_pc EXCEPT ![t] = "recheck"]
    /\ UNCHANGED <<em_installed, em_embedder, em_ret, em_built, em_calls>>

RecheckSkipped(t) ==
    /\ em_pc[t] = "recheck"
    /\ em_pc' = [em_pc EXCEPT ![t] = "load"]
    /\ UNCHANGED <<em_installed, em_embedder, em_lock, em_ret, em_built, em_calls>>

\* lines 229-231: the test inside the lock
Recheck(t) ==
    /\ em_pc[t] = "recheck"
    /\ IF em_embedder # 0
       THEN /\ em_pc' = [em_pc EXCEPT ![t] = "idle"]
            /\ em_ret' = [em_ret EXCEPT ![t] = em_embedder]
            /\ em_lock' = 0
       ELSE /\ em_pc' = [em_pc EXCEPT ![t] = "load"]
            /\ UNCHANGED <<em_ret, em_lock>>
    /\ UNCHANGED <<em_installed, em_embedder, em_built, em_calls>>

\* lines 232-262: the import and SentenceTransformer(EMBEDDING_MODEL); an
\* ImportError returns None, any other error leaves the function; the lock
\* is released either way
Load(t, ok) ==
    /\ em_pc[t] = "load"
    /\ em_pc' = [em_pc EXCEPT ![t] = "idle"]
    /\ em_lock' = 0
    /\ IF ~em_installed
       THEN /\ em_ret' = [em_ret EXCEPT ![t] = 0]
            /\ UNCHANGED <<em_embedder, em_built>>
       ELSE IF ok
       THEN /\ em_built' = em_built + 1
            /\ em_embedder' = em_built + 1
            /\ em_ret' = [em_ret EXCEPT ![t] = em_built + 1]
       ELSE /\ em_ret' = [em_ret EXCEPT ![t] = Raising]
            /\ UNCHANGED <<em_embedder, em_built>>
    /\ UNCHANGED <<em_installed, em_calls>>

\* ------------------------------------------------------------------
\* cli.py, app_ctk.py, app_gtk.py: the caller of the planner and the client
\* ------------------------------------------------------------------
VARIABLES last_request, ss_pc, ss_request, ss_is_continue, ss_directives, ss_handed,
          ss_owner, ss_appended, ss_result, ss_runs

callerVars == <<last_request, ss_pc, ss_request, ss_is_continue, ss_directives, ss_handed,
                ss_owner, ss_appended, ss_result, ss_runs>>

NotHanded == [kind |-> "none"]

\* SpotifyClient.__init__ lines 121-122; no worker has run
CallerIdle ==
    /\ last_request = <<>>
    /\ ss_pc = "idle"
    /\ ss_request = <<>>
    /\ ss_is_continue = FALSE
    /\ ss_directives = NoDir
    /\ ss_handed = NotHanded
    /\ ss_owner = <<>>
    /\ ss_appended = <<>>
    /\ ss_result = "none"
    /\ ss_runs = 0

\* a worker's locals when it is started (_set_busy(True) keeps a second one out)
EnterWorker(request, is_continue) ==
    /\ ss_pc = "idle"
    /\ ss_runs < MaxRuns
    /\ ss_runs' = ss_runs + 1
    /\ ss_request' = request
    /\ ss_is_continue' = is_continue
    /\ ss_directives' = NoDir
    /\ ss_handed' = NotHanded
    /\ ss_appended' = <<>>
    /\ ss_result' = "none"
    /\ ss_pc' = "plan"
    /\ UNCHANGED <<last_queries, ss_owner>>

\* _handle_play (app_ctk.py lines 370-380), run_cli lines 90-92: an empty
\* request is turned away, any other becomes last_request before it is planned
HandlePlay(request) ==
    /\ request # <<>>
    /\ EnterWorker(request, FALSE)
    /\ last_request' = request

\* _handle_continue (app_ctk.py lines 382-390), run_cli lines 79-82
HandleContinue ==
    /\ last_request # <<>>
    /\ EnterWorker(last_request, TRUE)
    /\ UNCHANGED last_request

\* Step 1 of the worker (app_ctk.py lines 402-440, run_cli lines 79-97):
\* get_continue_params(last_request, last_queries) or get_vibe_params(request)
\* raises, or returns directives; get_continue_params without an AI repeats
\* the previous queries (brain.py lines 519-523)
PlanStep(ans) ==
    /\ ss_pc = "plan"
    /\ ans.kind = "repeat" => ss_is_continue
    /\ ss_handed' = IF ss_is_continue
                    THEN [kind |-> "pair", request |-> last_request,
                          queries |-> last_queries, owner |-> ss_owner]
                    ELSE NotHanded
    /\ ss_directives' = CASE ans.kind = "raise" -> NoDir
                          [] ans.kind = "repeat" -> [kind |-> "obj", queries |-> last_queries]
                          [] OTHER -> [kind |-> "obj", queries |-> ans.queries]
    /\ ss_pc' = IF ans.kind = "raise" THEN "done" ELSE "play"
    /\ ss_result' = IF ans.kind = "raise" THEN "ai_error" ELSE "none"
    /\ UNCHANGED <<last_request, last_queries, ss_request, ss_is_continue, ss_owner,
                   ss_appended, ss_runs>>

\* getattr(directives, "_raw_request", "") (spotify_client.py line 703):
\* DJDirectives (brain.py lines 255-259) has the fields reasoning, queries and
\* queue_size, and no statement of the repository sets another
RawRequest(directives) ==
    IF "raw_request" \in DOMAIN directives THEN directives.raw_request ELSE <<>>

\* record_request (preferences.py lines 161-172): nothing with learning
\* disabled, else one entry {request, success, timestamp}
RecordRequest(history, request, learning) ==
    IF learning THEN Append(history, [request |-> request, success |-> TRUE]) ELSE history

\* Step 2 of the worker, search_and_play as its caller sees it: a failure
\* returned before line 696 or raised by start_playback leaves the session;
\* a start_playback that returns is followed by lines 696-705
SearchAndPlayStep(ok) ==
    /\ ss_pc = "play"
    /\ ok => ss_directives.queries # <<>>
    /\ IF ok
       THEN /\ last_queries' = ss_directives.queries
            /\ ss_owner' = ss_request
            /\ ss_appended' = RecordRequest(ss_appended,
                                            RawRequest(ss_directives), pf_learning)
            /\ ss_result' = "ok"
       ELSE /\ ss_result' = "fail"
            /\ UNCHANGED <<last_queries, ss_owner, ss_appended>>
    /\ ss_pc' = "done"
    /\ UNCHANGED <<last_request, ss_request, ss_is_continue, ss_directives, ss_handed,
                   ss_runs>>

\* _finish_worker (app_ctk.py lines 467-478): _set_busy(False)
FinishWorker ==
    /\ ss_pc = "done"
    /\ ss_pc' = "idle"
    /\ UNCHANGED <<last_request, last_queries, ss_request, ss_is_continue, ss_directives,
                   ss_handed, ss_owner, ss_appended, ss_result, ss_runs>>

CallerRequests == {<<"a">>, <<"b">>}

CallerQueryLists == {<<<<"a">>>>, <<<<"b">>>>, <<<<"a">>, <<"b">>>>}

PlanAnswers ==
    {[kind |-> "raise"], [kind |-> "repeat"]}
    \cup {[kind |-> "ok", queries |-> q] : q \in CallerQueryLists}

\* ------------------------------------------------------------------
\* spotify_client.py: get_current_track and like_current_track
\* ------------------------------------------------------------------
VARIABLES liked_ids, lk_pc, lk_track, lk_calls

likeVars == <<liked_ids, lk_pc, lk_track, lk_calls>>

NotPlaying == [kind |-> "none"]

\* SpotifyClient.__init__ line 124
LikeIdle ==
    /\ liked_ids = {}
    /\ lk_pc = "idle"
    /\ lk_track = NotPlaying
    /\ lk_calls = <<>>

\* get_current_track (lines 452-477): None when the request raises or nothing
\* is playing, else the track with is_liked read from the local set
GetCurrentTrackOf(playing) ==
    IF playing \in {"raise", "none"}
    THEN NotPlaying
    ELSE [kind |-> "track", id |-> playing, is_liked |-> playing \in liked_ids]

\* the calls remembered for the claims: the two latest
Latest(calls) == IF Len(calls) > LikeCallsKept THEN Tail(calls) ELSE calls

LikeCall(track, success, remote, recorded, after) ==
    [track |-> track, success |-> success, remote |-> remote, recorded |-> recorded,
     before |-> liked_ids, after |-> after]

\* like_current_track lines 481-483
LikeGetTrack(playing) ==
    /\ lk_pc = "idle"
    /\ lk_track' = GetCurrentTrackOf(playing)
    /\ IF GetCurrentTrackOf(playing) = NotPlaying
       THEN /\ lk_pc' = "idle"
            /\ lk_calls' = Latest(Append(lk_calls,
                                LikeCall(NotPlaying, FALSE, "none", FALSE, liked_ids)))
       ELSE /\ lk_pc' = "got"
            /\ UNCHANGED lk_calls
    /\ UNCHANGED liked_ids

LikedAfterAdd(liked, track) == liked \cup {track.id}

\* lines 490-497: discard the id of a liked track, add that of another
LikedAfter(liked, track) ==
    IF track.is_liked THEN liked \ {track.id} ELSE liked \cup {track.id}

\* like_current_track lines 484-500: the remote call raises (or _get_client
\* does), or it returns and the local set follows; record_like, called last
\* on a like, returns or raises into the same except
LikeUpdate(remote_ok, record_ok) ==
    /\ lk_pc = "got"
    /\ (~remote_ok \/ lk_track.is_liked) => record_ok
    /\ liked_ids' = IF remote_ok THEN LikedAfter(liked_ids, lk_track) ELSE liked_ids
    /\ lk_calls' = Latest(Append(lk_calls,
                      LikeCall(lk_track, remote_ok /\ record_ok,
                               IF remote_ok THEN "ok" ELSE "fail",
                               remote_ok /\ ~lk_track.is_liked,
                               IF remote_ok THEN LikedAfter(liked_ids, lk_track)
                               ELSE liked_ids)))
    /\ lk_pc' = "idle"
    /\ lk_track' = NotPlaying

Playing == {"raise", "none", "t1", "t2"}

\* ------------------------------------------------------------------
\* spotify_client.py: the pool builders, one Web API request at a time
\* ------------------------------------------------------------------
\* a track of an answer, named by where it came from: the search of query q
\* or the album, and its rank in that result
Found(src, q, album, rank) == [src |-> src, q |-> q, album |-> album, rank |-> rank]

\* the n tracks of a page that starts after offset
PageOf(src, q, album, offset, n) == [i \in 1..n |-> Found(src, q, album, offset + i)]

\* "if uri and uri not in seen_uris: seen_uris.add(uri); append" (lines
\* 388-392, 406-410, 432-438)
RECURSIVE UniqueFrom(_, _)
UniqueFrom(tracks, seen) ==
    IF tracks = <<>> THEN <<>>
    ELSE IF Head(tracks) \in seen THEN UniqueFrom(Tail(tracks), seen)
    ELSE <<Head(tracks)>> \o UniqueFrom(Tail(tracks), seen \cup {Head(tracks)})

\* the orders random.shuffle (or score_tracks) leaves a pool in: every order
\* of a short pool; of a longer one, its rotations and their reversals
SampleOrders(s) ==
    LET n == Len(s)
    IN  IF n <= MaxFullShuffle
        THEN {[i \in 1..n |-> s[p[i]]] : p \in Orderings(1..n)}
        ELSE {[i \in 1..n |-> s[((i + r - 1) % n) + 1]] : r \in 0..(n - 1)}
             \cup {[i \in 1..n |-> s[((n - i + r) % n) + 1]] : r \in 0..(n - 1)}

VARIABLES rq_pc, rq_mode, rq_n, rq_target, rq_q, rq_page, rq_tracks, rq_album, rq_all,
          rq_seen_album_ids, rq_log, rq_out

requestVars == <<rq_pc, rq_mode, rq_n, rq_target, rq_q, rq_page, rq_tracks, rq_album,
                 rq_all, rq_seen_album_ids, rq_log, rq_out>>

RequestsIdle ==
    /\ rq_pc = "idle"
    /\ rq_mode = "track"
    /\ rq_n = 0
    /\ rq_target = 0
    /\ rq_q = 1
    /\ rq_page = 0
    /\ rq_tracks = <<>>
    /\ rq_album = ""
    /\ rq_all = <<>>
    /\ rq_seen_album_ids = {}
    /\ rq_log = <<>>
    /\ rq_out = <<>>

\* where "for query in queries" (lines 384, 428) goes for query q of n
QueryEntry(mode, q, n) ==
    IF q > n THEN "rank" ELSE IF mode = "album" THEN "albums" ELSE "token"

\* _build_track_pool(queries, target) / _build_album_pool(queries, target)
\* with n queries
BuildPool(mode, n, target) ==
    /\ rq_pc = "idle"
    /\ rq_mode' = mode
    /\ rq_n' = n
    /\ rq_target' = target
    /\ rq_q' = 1
    /\ rq_pc' = QueryEntry(mode, 1, n)
    /\ UNCHANGED <<rq_page, rq_tracks, rq_album, rq_all, rq_seen_album_ids, rq_log, rq_out>>

\* the end of one query's turn: its tracks join all_tracks (in album mode
\* only those not seen yet) and the loop goes to the next query
EndQuery(tracks) ==
    /\ rq_all' = IF rq_mode = "album"
                 THEN rq_all \o UniqueFrom(tracks, Range(rq_all))
                 ELSE rq_all \o tracks
    /\ rq_q' = rq_q + 1
    /\ rq_pc' = QueryEntry(rq_mode, rq_q + 1, rq_n)
    /\ rq_page' = 0
    /\ rq_tracks' = <<>>

\* _run_single_search, line 294: _get_token(); an error ends the search with []
GetToken(ok) ==
    /\ rq_pc = "token"
    /\ rq_log' = Append(rq_log, [kind |-> "token", q |-> rq_q, ok |-> ok])
    /\ IF ok
       THEN /\ rq_pc' = "page"
            /\ rq_page' = 0
            /\ rq_tracks' = <<>>
            /\ UNCHANGED <<rq_q, rq_all>>
       ELSE EndQuery(<<>>)
    /\ UNCHANGED <<rq_mode, rq_n, rq_target, rq_album, rq_seen_album_ids, rq_out>>

MorePagesAlways(n, page) == page + 1 < SEARCH_PAGES

\* _run_single_search, lines 296 and 302-303: another page follows a full
\* page while fewer than SEARCH_PAGES were asked for
MorePages(n, page) == n >= RESULTS_PER_QUERY /\ page + 1 < SEARCH_PAGES

\* what _search_page returns: [] for an HTTP error or an exception (lines
\* 279-285), else the page's items
PageAnswers == {[kind |-> "fail", n |-> 0]} \cup {[kind |-> "ok", n |-> k] : k \in {0, 3, RESULTS_PER_QUERY}}

\* _run_single_search, lines 296-303: one page
SearchPage(ans) ==
    /\ rq_pc = "page"
    /\ LET offset == rq_page * RESULTS_PER_QUERY
           tracks == rq_tracks \o PageOf("search", rq_q, "", offset, ans.n)
       IN  /\ rq_log' = Append(rq_log, [kind |-> "search", q |-> rq_q, offset |-> offset,
                                        ok |-> ans.kind = "ok", n |-> ans.n])
           /\ IF MorePages(ans.n, rq_page)
              THEN /\ rq_page' = rq_page + 1
                   /\ rq_tracks' = tracks
                   /\ UNCHANGED <<rq_pc, rq_q, rq_all>>
              ELSE EndQuery(tracks)
    /\ UNCHANGED <<rq_mode, rq_n, rq_target, rq_album, rq_seen_album_ids, rq_out>>

\* what _search_albums returns: [] for an HTTP error or an exception (lines
\* 323-333), else the ids of the albums found, best first ("" for an album
\* without an id)
AlbumAnswers ==
    {[kind |-> "fail", items |-> <<>>]}
    \cup {[kind |-> "ok", items |-> a] : a \in {<<>>, <<"">>, <<"A">>, <<"B", "A">>}}

TopAlbumLast(items) == items[Len(items)]

\* line 396: album = albums[0]
TopAlbum(items) == items[1]

\* _build_album_pool, lines 385-402: the album search of one query
SearchAlbums(ans) ==
    /\ rq_pc = "albums"
    /\ rq_log' = Append(rq_log, [kind |-> "albums", q |-> rq_q, ok |-> ans.kind = "ok",
                                 items |-> ans.items])
    /\ IF ans.items = <<>>
       THEN /\ rq_pc' = "token"
            /\ UNCHANGED <<rq_q, rq_page, rq_tracks, rq_album, rq_all, rq_seen_album_ids>>
       ELSE LET album_id == TopAlbum(ans.items)
            IN  IF album_id = "" \/ album_id \in rq_seen_album_ids
                THEN /\ EndQuery(<<>>)
                     /\ UNCHANGED <<rq_album, rq_seen_album_ids>>
                ELSE /\ rq_seen_album_ids' = rq_seen_album_ids \cup {album_id}
                     /\ rq_album' = album_id
                     /\ rq_pc' = "fetch"
                     /\ rq_page' = 0
                     /\ rq_tracks' = <<>>
                     /\ UNCHANGED <<rq_q, rq_all>>
    /\ UNCHANGED <<rq_mode, rq_n, rq_target, rq_out>>

\* one request of _fetch_album_tracks (lines 345-361): an exception, of
\* _get_token or of the request; a status that is not ok; or a page of items
\* with or without a "next" link
FetchAnswers ==
    {[kind |-> "raise", n |-> 0, next |-> FALSE], [kind |-> "notok", n |-> 0, next |-> FALSE]}
    \cup {[kind |-> "ok", n |-> k, next |-> b] : k \in {0, 2}, b \in BOOLEAN}

\* _fetch_album_tracks, lines 343-364: "if not resp.ok: break" returns the
\* pages read so far, "except Exception: return []" returns none of them
FetchAlbumPage(ans) ==
    /\ rq_pc = "fetch"
    /\ ans.next => rq_page + 1 < MaxAlbumPages
    /\ LET tracks == rq_tracks \o PageOf("album", rq_q, rq_album, 2 * rq_page, ans.n)
       IN  /\ rq_log' = Append(rq_log, [kind |-> "fetch", q |-> rq_q, album |-> rq_album,
                                        page |-> rq_page, ok |-> ans.kind = "ok", n |-> ans.n])
           /\ IF ans.kind = "ok" /\ ans.next
              THEN /\ rq_page' = rq_page + 1
                   /\ rq_tracks' = tracks
                   /\ UNCHANGED <<rq_pc, rq_q, rq_all>>
              ELSE IF ans.kind = "raise" THEN EndQuery(<<>>)
              ELSE EndQuery(tracks)
    /\ UNCHANGED <<rq_mode, rq_n, rq_target, rq_album, rq_seen_album_ids, rq_out>>

\* lines 412-414 and 431-450: (dedup,) shuffle or rerank, truncate
RankPool ==
    /\ rq_pc = "rank"
    /\ LET pool == IF rq_mode = "album" THEN rq_all ELSE UniqueFrom(rq_all, {})
       IN  \E ordered \in SampleOrders(pool) : rq_out' = Prefix(ordered, rq_target)
    /\ rq_pc' = "done"
    /\ UNCHANGED <<rq_mode, rq_n, rq_target, rq_q, rq_page, rq_tracks, rq_album, rq_all,
                   rq_seen_album_ids, rq_log>>

\* ---------------------------------------------------------- specifications
vars == <<plannerVars, builderVars, playVars, mixVars, detectorVars, prefsVars, embedVars,
          requestVars, callerVars, likeVars>>

\* the planner alone
SpecPlannerInit == PlannerInit /\ BuilderIdle /\ PlayInit /\ MixIdle /\ DetectorInit /\ PrefsIdle /\ EmbedIdle /\ RequestsIdle /\ CallerIdle /\ LikeIdle

SpecPlannerNext == PlannerNext /\ UNCHANGED <<builderVars, playVars, mixVars, detectorVars, prefsVars, embedVars, requestVars, callerVars, likeVars>>

SpecPlanner == SpecPlannerInit /\ [][SpecPlannerNext]_vars

\* the pool builder alone
PoolInit == PlannerInit /\ BuilderIdle /\ PlayInit /\ MixIdle /\ DetectorInit /\ PrefsIdle /\ EmbedIdle /\ RequestsIdle /\ CallerIdle /\ LikeIdle

PoolNext ==
    \/ \E m \in {"track", "album"}, q \in PoolQueries, t \in PoolTargets :
          Build(m, q, t) /\ UNCHANGED <<plannerVars, playVars, mixVars, detectorVars, prefsVars, embedVars, requestVars, callerVars, likeVars>>
    \/ \E a \in PoolAnswers : TrackQuery(<<a>>) /\ UNCHANGED <<plannerVars, playVars, mixVars, detectorVars, prefsVars, embedVars, requestVars, callerVars, likeVars>>
    \/ \E al \in AlbumResults, a \in PoolAnswers :
          AlbumQuery(al, <<a>>, a) /\ UNCHANGED <<plannerVars, playVars, mixVars, detectorVars, prefsVars, embedVars, requestVars, callerVars, likeVars>>
    \/ TrackRank /\ UNCHANGED <<plannerVars, playVars, mixVars, detectorVars, prefsVars, embedVars, requestVars, callerVars, likeVars>>
    \/ AlbumRank /\ UNCHANGED <<plannerVars, playVars, mixVars, detectorVars, prefsVars, embedVars, requestVars, callerVars, likeVars>>

SpecPool == PoolInit /\ [][PoolNext]_vars

\* a session of play() and play_mixed() calls on one client
SessionInit == PlannerInit /\ BuilderIdle /\ PlayInit /\ MixIdle /\ DetectorInit /\ PrefsIdle /\ EmbedIdle /\ RequestsIdle /\ CallerIdle /\ LikeIdle

SessionNext ==
    \/ \E dir \in PlayDirectives, ok \in BOOLEAN : SearchAndPlay(dir, ok) /\ UNCHANGED <<plannerVars, mixVars, detectorVars, prefsVars, embedVars, requestVars, callerVars, likeVars>>
    \/ \E pl \in MixPlaylists, dir \in MixedDirectives, r \in MixRatios :
          SearchAndPlayMixed(pl, dir, r) /\ UNCHANGED <<plannerVars, mixVars, detectorVars, prefsVars, embedVars, requestVars, callerVars, likeVars>>
    \/ \E l \in Listings : DeviceInitial(l) /\ UNCHANGED <<plannerVars, mixVars, detectorVars, prefsVars, embedVars, requestVars, callerVars, likeVars>>
    \/ \E l \in Listings : EnsureRecheck(l) /\ UNCHANGED <<plannerVars, mixVars, detectorVars, prefsVars, embedVars, requestVars, callerVars, likeVars>>
    \/ \E n \in LaunchCommandCounts, k \in 0..3 : Launch(n, k) /\ UNCHANGED <<plannerVars, mixVars, detectorVars, prefsVars, embedVars, requestVars, callerVars, likeVars>>
    \/ \E l \in Listings : Poll(l) /\ UNCHANGED <<plannerVars, mixVars, detectorVars, prefsVars, embedVars, requestVars, callerVars, likeVars>>
    \/ \E l \in Listings : DeviceFinal(l) /\ UNCHANGED <<plannerVars, mixVars, detectorVars, prefsVars, embedVars, requestVars, callerVars, likeVars>>
    \/ Unpack /\ UNCHANGED <<plannerVars, mixVars, detectorVars, prefsVars, embedVars, requestVars, callerVars, likeVars>>
    \/ \E a \in PlayAnswers : BuilderStep(TrackQuery(<<a>>)) /\ UNCHANGED <<plannerVars, mixVars, detectorVars, prefsVars, embedVars, requestVars, callerVars, likeVars>>
    \/ \E al \in AlbumResults, a \in PlayAnswers :
          BuilderStep(AlbumQuery(al, <<a>>, a)) /\ UNCHANGED <<plannerVars, mixVars, detectorVars, prefsVars, embedVars, requestVars, callerVars, likeVars>>
    \/ BuilderStep(TrackRank) /\ UNCHANGED <<plannerVars, mixVars, detectorVars, prefsVars, embedVars, requestVars, callerVars, likeVars>>
    \/ BuilderStep(AlbumRank) /\ UNCHANGED <<plannerVars, mixVars, detectorVars, prefsVars, embedVars, requestVars, callerVars, likeVars>>
    \/ PlayFilter /\ UNCHANGED <<plannerVars, mixVars, detectorVars, prefsVars, embedVars, requestVars, callerVars, likeVars>>
    \/ MixedQueue /\ UNCHANGED <<plannerVars, mixVars, detectorVars, prefsVars, embedVars, requestVars, callerVars, likeVars>>
    \/ \E ok, recorded \in BOOLEAN :
          StartPlayback(ok, recorded) /\ UNCHANGED <<plannerVars, mixVars, detectorVars, prefsVars, embedVars, requestVars, callerVars, likeVars>>
    \/ Return /\ UNCHANGED <<plannerVars, mixVars, detectorVars, prefsVars, embedVars, requestVars, callerVars, likeVars>>

SpecPlay == SessionInit /\ [][SessionNext]_vars

\* the interleaving alone, on every pair of lists up to MaxMix long
MixInit ==
    /\ PlannerInit /\ BuilderIdle /\ PlayInit /\ DetectorInit /\ PrefsIdle /\ EmbedIdle /\ RequestsIdle /\ CallerIdle /\ LikeIdle
    /\ mx_P \in MixSamples
    /\ mx_S \in MixPools
    /\ mx_mixed = <<>>
    /\ mx_done = FALSE

MixNext == ApplyInterleave /\ UNCHANGED <<plannerVars, builderVars, playVars, detectorVars, prefsVars, embedVars, requestVars, callerVars, likeVars>>

SpecMix == MixInit /\ [][MixNext]_vars

\* the skip detector: its caller's thread, its polling threads and the clock
SkipInit == PlannerInit /\ BuilderIdle /\ PlayInit /\ MixIdle /\ DetectorInit /\ PrefsIdle /\ EmbedIdle /\ RequestsIdle /\ CallerIdle /\ LikeIdle

SkipNext ==
    \/ Start /\ UNCHANGED <<plannerVars, builderVars, playVars, mixVars, prefsVars, embedVars, requestVars, callerVars, likeVars>>
    \/ Stop /\ UNCHANGED <<plannerVars, builderVars, playVars, mixVars, prefsVars, embedVars, requestVars, callerVars, likeVars>>
    \/ \E t \in DetTracks :
          NotifyTrackStarted(t) /\ UNCHANGED <<plannerVars, builderVars, playVars, mixVars, prefsVars, embedVars, requestVars, callerVars, likeVars>>
    \/ \E l \in Loops : LoopTop(l) /\ UNCHANGED <<plannerVars, builderVars, playVars, mixVars, prefsVars, embedVars, requestVars, callerVars, likeVars>>
    \/ \E l \in Loops, r \in DetAnswers :
          GetCurrentTrack(l, r) /\ UNCHANGED <<plannerVars, builderVars, playVars, mixVars, prefsVars, embedVars, requestVars, callerVars, likeVars>>
    \/ \E l \in Loops : Check(l) /\ UNCHANGED <<plannerVars, builderVars, playVars, mixVars, prefsVars, embedVars, requestVars, callerVars, likeVars>>
    \/ \E l \in Loops, ok \in BOOLEAN :
          RecordSkip(l, ok) /\ UNCHANGED <<plannerVars, builderVars, playVars, mixVars, prefsVars, embedVars, requestVars, callerVars, likeVars>>
    \/ \E l \in Loops : Rebase(l) /\ UNCHANGED <<plannerVars, builderVars, playVars, mixVars, prefsVars, embedVars, requestVars, callerVars, likeVars>>
    \/ \E d \in TimeSteps : Advance(d) /\ UNCHANGED <<plannerVars, builderVars, playVars, mixVars, prefsVars, embedVars, requestVars, callerVars, likeVars>>

SpecSkip == SkipInit /\ [][SkipNext]_vars

\* one step of the polling thread l: the test of line 419 and the statements
\* of _check; time.sleep(3) ends and the Web API call is bounded by the
\* client's request timeout, so a thread that can take a step takes one
LoopStep(l) ==
    /\ \/ LoopTop(l)
       \/ \E r \in DetAnswers : GetCurrentTrack(l, r)
       \/ Check(l)
       \/ \E ok \in BOOLEAN : RecordSkip(l, ok)
       \/ Rebase(l)
    /\ UNCHANGED <<plannerVars, builderVars, playVars, mixVars, prefsVars, embedVars, requestVars, callerVars, likeVars>>

SpecSkipFair == SpecSkip /\ \A l \in Loops : WF_vars(LoopStep(l))

EmbedInit ==
    /\ PlannerInit /\ BuilderIdle /\ PlayInit /\ MixIdle /\ DetectorInit /\ PrefsIdle
    /\ RequestsIdle /\ CallerIdle /\ LikeIdle
    /\ em_installed \in BOOLEAN
    /\ em_embedder = 0
    /\ em_lock = 0
    /\ em_pc = [t \in Threads |-> "idle"]
    /\ em_ret = [t \in Threads |-> NotReturned]
    /\ em_built = 0
    /\ em_calls = 0

EmbedNext ==
    \/ \E t \in Threads :
          GetEmbedder(t) /\ UNCHANGED <<plannerVars, builderVars, playVars, mixVars, detectorVars, prefsVars, requestVars, callerVars, likeVars>>
    \/ \E t \in Threads :
          FastPath(t) /\ UNCHANGED <<plannerVars, builderVars, playVars, mixVars, detectorVars, prefsVars, requestVars, callerVars, likeVars>>
    \/ \E t \in Threads :
          Acquire(t) /\ UNCHANGED <<plannerVars, builderVars, playVars, mixVars, detectorVars, prefsVars, requestVars, callerVars, likeVars>>
    \/ \E t \in Threads :
          Recheck(t) /\ UNCHANGED <<plannerVars, builderVars, playVars, mixVars, detectorVars, prefsVars, requestVars, callerVars, likeVars>>
    \/ \E t \in Threads, ok \in BOOLEAN :
          Load(t, ok) /\ UNCHANGED <<plannerVars, builderVars, playVars, mixVars, detectorVars, prefsVars, requestVars, callerVars, likeVars>>

SpecEmbed == EmbedInit /\ [][EmbedNext]_vars

RequestsInit ==
    /\ PlannerInit /\ BuilderIdle /\ PlayInit /\ MixIdle /\ DetectorInit /\ PrefsIdle
    /\ EmbedIdle /\ RequestsIdle /\ CallerIdle /\ LikeIdle

RequestsNext ==
    \/ \E m \in {"track", "album"}, n \in 0..MaxQueries, t \in RequestTargets :
          BuildPool(m, n, t)
             /\ UNCHANGED <<plannerVars, builderVars, playVars, mixVars, detectorVars, prefsVars, embedVars, callerVars, likeVars>>
    \/ \E ok \in BOOLEAN :
          GetToken(ok)
             /\ UNCHANGED <<plannerVars, builderVars, playVars, mixVars, detectorVars, prefsVars, embedVars, callerVars, likeVars>>
    \/ \E ans \in PageAnswers :
          SearchPage(ans)
             /\ UNCHANGED <<plannerVars, builderVars, playVars, mixVars, detectorVars, prefsVars, embedVars, callerVars, likeVars>>
    \/ \E ans \in AlbumAnswers :
          SearchAlbums(ans)
             /\ UNCHANGED <<plannerVars, builderVars, playVars, mixVars, detectorVars, prefsVars, embedVars, callerVars, likeVars>>
    \/ \E ans \in FetchAnswers :
          FetchAlbumPage(ans)
             /\ UNCHANGED <<plannerVars, builderVars, playVars, mixVars, detectorVars, prefsVars, embedVars, callerVars, likeVars>>
    \/ RankPool
          /\ UNCHANGED <<plannerVars, builderVars, playVars, mixVars, detectorVars, prefsVars, embedVars, callerVars, likeVars>>

SpecRequests == RequestsInit /\ [][RequestsNext]_vars

\* the caller's session: fresh requests and continues, one worker at a time
CallerInit ==
    /\ PlannerInit /\ BuilderIdle /\ PlayInit /\ MixIdle /\ DetectorInit
    /\ EmbedIdle /\ RequestsIdle /\ CallerIdle /\ LikeIdle
    /\ pf_learning \in BOOLEAN
    /\ pf_disk = NoFile
    /\ pf_job = [j \in Jobs |-> IdleJob]
    /\ pf_calls = 0
    /\ pf_sequential = TRUE
    /\ pf_log = <<>>
    /\ pf_done = {}
    /\ pf_ranked = NotRanked

CallerRest == <<plannerVars, builderVars, sp_client, played_uris, callVars, mixVars,
                detectorVars, prefsVars, embedVars, requestVars, likeVars>>

CallerNext ==
    \/ \E request \in CallerRequests :
          HandlePlay(request) /\ UNCHANGED CallerRest
    \/ HandleContinue /\ UNCHANGED CallerRest
    \/ \E ans \in PlanAnswers :
          PlanStep(ans) /\ UNCHANGED CallerRest
    \/ \E ok \in BOOLEAN :
          SearchAndPlayStep(ok) /\ UNCHANGED CallerRest
    \/ FinishWorker /\ UNCHANGED CallerRest

SpecCaller == CallerInit /\ [][CallerNext]_vars

\* the like button
LikeInit ==
    /\ PlannerInit /\ BuilderIdle /\ PlayInit /\ MixIdle /\ DetectorInit /\ PrefsIdle
    /\ EmbedIdle /\ RequestsIdle /\ CallerIdle /\ LikeIdle

LikeRest == <<plannerVars, builderVars, playVars, mixVars, detectorVars, prefsVars,
              embedVars, requestVars, callerVars>>

LikeNext ==
    \/ \E playing \in Playing :
          LikeGetTrack(playing) /\ UNCHANGED LikeRest
    \/ \E remote_ok \in BOOLEAN, record_ok \in BOOLEAN :
          LikeUpdate(remote_ok, record_ok) /\ UNCHANGED LikeRest

SpecLike == LikeInit /\ [][LikeNext]_vars

\* ---------------------------------------------------------------- planner claims

NoAIConfigured == ~pl_cfg.api_key /\ ~pl_cfg.local_url

\* C1: for a non-empty request with neither a cloud key nor a local endpoint,
\* get_vibe_params returns exactly one query, which is not empty and is the
\* lowercased request without its stop-word tokens (the request verbatim when
\* every token is a stop word), with queue_size 40.
C1_FallbackTotality ==
    (pl_pc = "done" /\ pl_entry = "fresh" /\ NoAIConfigured /\ pl_request # <<>>) =>
        /\ Len(pl_result.queries) = 1
        /\ pl_result.queries[1] # <<>>
        /\ pl_result.queue_size = 40
        /\ LET kept == SelectSeq(Split(Lower(pl_request)), LAMBDA w : w \notin STOPWORDS)
           IN  IF kept = <<>>
               THEN pl_result.queries[1] = pl_request
               ELSE /\ Split(pl_result.queries[1]) = kept
                    /\ pl_result.queries[1] = Join(kept)

C1_Witness ==
    /\ pl_pc = "done" /\ pl_entry = "fresh" /\ NoAIConfigured
    /\ pl_request = <<"A", " ", "b">>
    /\ pl_result.queries = << <<"b">> >>

C3_QueriesNeverEmpty ==
    pl_pc = "done" => pl_result.queries # <<>>

\* C4: no planner entry point raises, whatever fails in the remote and local
\* tiers (a client construction error included).
C4_PlannerNeverRaises ==
    pl_pc # "raised"

\* ------------------------------------------------------------- pool claims

\* C5: the list the pool builder returns (track mode or album mode) holds each
\* track URI at most once, holds no track without a URI, and the track it
\* holds for a URI is the first one with that URI among the raw results.
C5_DedupFirstOccurrence ==
    pb_pc = "done" =>
        /\ \A i, j \in 1..Len(pb_out) : i # j => pb_out[i].uri # pb_out[j].uri
        /\ \A i \in 1..Len(pb_out) : pb_out[i].uri # ""
        /\ \A i \in 1..Len(pb_out) :
              \E k \in 1..Len(pb_raw) :
                 /\ pb_raw[k] = pb_out[i]
                 /\ \A m \in 1..(k - 1) : pb_raw[m].uri # pb_out[i].uri

C5_Witness ==
    /\ pb_pc = "done"
    /\ pb_raw = <<Track("u1", "n2"), Track("", "n1"), Track("u2", "n1"), Track("u1", "n1")>>
    /\ pb_out = <<Track("u2", "n1"), Track("u1", "n2")>>

\* ------------------------------------------------------------------
\* play() and play_mixed(), checked under SpecPlay
\* ------------------------------------------------------------------

\* C6: when a play() call submits its queue for playback, no submitted URI
\* is in played_uris as it stood at the call, and none was submitted by an
\* earlier successful call of the session (play or mixed play).
C6_SessionNonRepetition ==
    [][(py_call = "play" /\ ~py_issued /\ py_issued') =>
          /\ Range(py_submitted') \cap played_uris = {}
          /\ Range(py_submitted') \cap py_ever = {}]_vars

\* a play() call whose pool held a URI of an earlier call and that still
\* started playback, with the other tracks
C6_Witness ==
    /\ py_pc = "done"
    /\ py_call = "play"
    /\ py_result.success
    /\ py_found \cap py_played0 # {}
    /\ py_submitted # <<>>

\* the case C7 is about: play() ran its searches on a resolved device with a
\* non-empty query list, and the pool held nothing that was not yet played
NothingNew ==
    /\ py_pc = "done"
    /\ py_call = "play"
    /\ py_device_id # "none"
    /\ DirQueries(py_dir) # <<>>
    /\ py_found \subseteq py_played0

\* C7: with a device available, if the queries find no track, or only
\* tracks already in played_uris, play() returns success=false with the
\* message that lists the attempted queries, and issues no playback command.
C7_NoTracksFound ==
    NothingNew =>
        /\ ~py_result.success
        /\ py_result.message = "No tracks found. Tried queries"
        /\ py_result.queries = DirQueries(py_dir)
        /\ ~py_issued

\* every track the searches found had been played earlier in the session
C7_Witness ==
    /\ NothingNew
    /\ py_found # {}
    /\ ~py_result.success

\* play() is past its device resolution (lines 643-653)
DeviceResolved ==
    /\ py_call = "play"
    /\ py_list0 # "unset"
    /\ py_pc \notin {"idle", "device0", "ensure0", "launch", "poll", "device1"}

\* C8 as stated: play() goes on to submit playback if and only if a device
\* was listed initially or registered within the polls.
C8_ListedOrPolled ==
    (DeviceResolved /\ py_pc # "raised") =>
        ((py_device_id # "none") <=> (py_list0 = "dev" \/ py_pollhit))

\* C8, amended: the launch is tried only after the first listing and the
\* re-listing of ensure_spotify_open were both empty, the device list is
\* polled at most 15 times and only after a launch command started; play()
\* goes on iff the last listing it made returned a device; whenever it ends
\* without a device no playback command was issued, and the PlayResult it
\* then returns is success=false with the no-device message.
C8_DeviceResolution ==
    /\ py_polls <= 15
    /\ (py_call = "play" /\ py_polls > 0) => (py_launched /\ py_list0 = "none")
    /\ (py_call = "play" /\ py_pc = "launch") => (py_list0 = "none" /\ py_lastlist = "none")
    /\ (py_call = "play" /\ py_launched) => py_list0 = "none"
    /\ DeviceResolved =>
          /\ (py_device_id # "none") <=> (py_lastlist = "dev")
          /\ py_device_id = "none" => ~py_issued
          /\ (py_device_id = "none" /\ py_pc = "done") => py_result = Fail(NO_DEVICE)

\* no device at first, a launch command starts, the device registers at the
\* third poll and is still listed afterwards: play() goes on
C8_Witness ==
    /\ py_call = "play"
    /\ py_pc = "unpack"
    /\ py_list0 = "none"
    /\ py_launched
    /\ py_polls = 3
    /\ py_pollhit
    /\ py_device_id # "none"

\* C9: play() and play_mixed() never raise to the caller.
C9_PlayNeverRaises == py_pc # "raised"

\* ------------------------------------------------------------------
\* the interleaving, checked under SpecMix
\* ------------------------------------------------------------------

\* C10: the mixed queue is P[1], S[1], P[2], S[2], ... while both lists have
\* elements, then the remainder of the longer list in order; its length is
\* |P| + |S|, so every element of P and of S appears exactly once and in its
\* list's order.
C10_MixedInterleave ==
    mx_done =>
        LET n == Min2(Len(mx_P), Len(mx_S)) IN
        /\ Len(mx_mixed) = Len(mx_P) + Len(mx_S)
        /\ \A k \in 1..n : mx_mixed[2 * k - 1] = mx_P[k] /\ mx_mixed[2 * k] = mx_S[k]
        /\ \A k \in (n + 1)..Len(mx_P) : mx_mixed[n + k] = mx_P[k]
        /\ \A k \in (n + 1)..Len(mx_S) : mx_mixed[n + k] = mx_S[k]

\* |P| = 2, |S| = 3: playlist, search, playlist, search, search
C10_Witness ==
    /\ mx_done
    /\ mx_P = <<Track("p1", "n1"), Track("p2", "n1")>>
    /\ mx_S = <<Track("s1", "n1"), Track("s2", "n1"), Track("s3", "n1")>>
    /\ mx_mixed = <<Track("p1", "n1"), Track("s1", "n1"), Track("p2", "n1"),
                    Track("s2", "n1"), Track("s3", "n1")>>

\* ------------------------------------------------------------------
\* the planner's continuation and playlist entries, checked under SpecPlanner
\* ------------------------------------------------------------------

\* C16: every directives value get_continue_params returns has queue_size
\* 40, whatever the AI claimed and whichever tier or fallback produced it.
C16_ContinueQueueSize ==
    (pl_pc = "done" /\ pl_entry = "continue") => pl_result.queue_size = 40

\* a continuation whose AI answer claimed 101 tracks
C16_Witness ==
    /\ pl_pc = "done" /\ pl_entry = "continue"
    /\ pl_raw # None /\ pl_raw.claimed = 101
    /\ pl_result.queue_size = 40

\* C17: no query returned by get_continue_params is one of previous_queries.
C17_ContinueAvoidsPrevious ==
    (pl_pc = "done" /\ pl_entry = "continue") =>
        \A i \in 1..Len(pl_result.queries) : pl_result.queries[i] \notin Range(pl_prev)

\* C18: when every AI tier fails, get_playlist_vibe_params returns at most 8
\* queries, pairwise distinct, each the first artist's name of some track of
\* the playlist.
C18_PlaylistFallback ==
    (pl_pc = "done" /\ pl_entry = "playlist" /\ pl_raw = None) =>
        /\ Len(pl_result.queries) <= 8
        /\ \A i, j \in 1..Len(pl_result.queries) :
              i # j => pl_result.queries[i] # pl_result.queries[j]
        /\ \A i \in 1..Len(pl_result.queries) :
              \E k \in 1..Len(pl_playlist) :
                 /\ pl_playlist[k].artists # <<>>
                 /\ pl_playlist[k].artists[1] = pl_result.queries[i]

\* a playlist with nine distinct first artists: eight come back
C18_Witness ==
    /\ pl_pc = "done" /\ pl_entry = "playlist" /\ pl_raw = None
    /\ Cardinality(PlaylistArtists(pl_playlist)) = 9
    /\ Len(pl_result.queries) = 8

\* the preference store: calls from the UI threads, the skip detector's
\* thread and the centroid threads, and the scoring of a pool
PrefsInit ==
    /\ PlannerInit /\ BuilderIdle /\ PlayInit /\ MixIdle /\ DetectorInit /\ EmbedIdle /\ RequestsIdle /\ CallerIdle /\ LikeIdle
    /\ pf_learning \in BOOLEAN
    /\ pf_disk \in {NoFile, Document(LongPrefs), Misshapen(EmptyPrefs)}
    /\ pf_job = [j \in Jobs |-> IdleJob]
    /\ pf_calls = 0
    /\ pf_sequential = (pf_disk = NoFile)
    /\ pf_log = <<>>
    /\ pf_done = {}
    /\ pf_ranked = NotRanked

PrefsNext ==
    \/ \E j \in Jobs, t \in PrefTracks :
          CallRecordLike(j, t) /\ UNCHANGED <<plannerVars, builderVars, playVars, mixVars, detectorVars, embedVars, requestVars, callerVars, likeVars>>
    \/ \E j \in Jobs, t \in PrefTracks :
          CallRecordSkip(j, t) /\ UNCHANGED <<plannerVars, builderVars, playVars, mixVars, detectorVars, embedVars, requestVars, callerVars, likeVars>>
    \/ \E j \in Jobs :
          CallRecordRequest(j) /\ UNCHANGED <<plannerVars, builderVars, playVars, mixVars, detectorVars, embedVars, requestVars, callerVars, likeVars>>
    \/ \E j \in Jobs, t \in PrefTracks, positive \in BOOLEAN :
          CallUpdateCentroidAsync(j, t, positive)
             /\ UNCHANGED <<plannerVars, builderVars, playVars, mixVars, detectorVars, embedVars, requestVars, callerVars, likeVars>>
    \/ \E j \in Jobs, embedded \in BOOLEAN :
          LoadAndModify(j, embedded) /\ UNCHANGED <<plannerVars, builderVars, playVars, mixVars, detectorVars, embedVars, requestVars, callerVars, likeVars>>
    \/ \E j \in Jobs, mkdir_ok \in BOOLEAN :
          SaveOpen(j, mkdir_ok) /\ UNCHANGED <<plannerVars, builderVars, playVars, mixVars, detectorVars, embedVars, requestVars, callerVars, likeVars>>
    \/ \E j \in Jobs, clean \in BOOLEAN :
          SaveWrite(j, clean) /\ UNCHANGED <<plannerVars, builderVars, playVars, mixVars, detectorVars, embedVars, requestVars, callerVars, likeVars>>
    \/ \E tracks \in CandidateLists :
          LoadAndScore(tracks) /\ UNCHANGED <<plannerVars, builderVars, playVars, mixVars, detectorVars, embedVars, requestVars, callerVars, likeVars>>

SpecPrefs == PrefsInit /\ [][PrefsNext]_vars

\* ------------------------------------------------------------------
\* the skip detector, checked under SpecSkip
\* ------------------------------------------------------------------

\* C11: a tick that finds the playing track's id different from the stored
\* baseline hands exactly the baseline track to record_skip when the time
\* elapsed since the baseline was recorded is under 20 seconds, and hands
\* nothing to record_skip when it is 20 seconds or more.
C11_SkipThreshold ==
    \A l \in Loops :
        /\ sd_loc[l].emit # NoTrack =>
              (sd_loc[l].emit = sd_loc[l].base /\ sd_loc[l].elapsed < 20)
        /\ sd_pc[l] = "rebase" =>
              ((sd_loc[l].emit # NoTrack) <=> (sd_loc[l].elapsed < 20))

\* C14: start() while the detector is running spawns no loop and changes
\* nothing; start() while it is not running sets running and spawns exactly
\* one loop; nothing else spawns a loop.
C14_StartIdempotent ==
    [][LET spawned == {l \in Loops : sd_pc[l] \in {"none", "exited"}
                                      /\ sd_pc'[l] \notin {"none", "exited"}}
       IN  /\ (sd_starts' # sd_starts /\ sd_running) =>
                 /\ spawned = {}
                 /\ UNCHANGED <<sd_running, sd_current_id, sd_current_track, sd_start_time,
                                sd_pc, sd_loc>>
           /\ (sd_starts' # sd_starts /\ ~sd_running) =>
                 (sd_running' /\ Cardinality(spawned) = 1)
           /\ spawned # {} => sd_starts' # sd_starts]_vars

\* start() was called twice, the second time while running: one loop
C14_Witness ==
    /\ sd_starts = 2
    /\ sd_running
    /\ sd_pc[1] \notin {"none", "exited"}
    /\ sd_pc[2] = "none"

\* C15: an error raised in a tick, by get_current_track or by record_skip,
\* leaves the loop at its while test; from there it polls again as long as
\* running is set, and a loop ends only at that test, with running false.
C15_LoopSurvivesErrors ==
    [][\A l \in Loops :
          /\ (sd_loc'[l].error /\ ~sd_loc[l].error) => sd_pc'[l] = "top"
          /\ (sd_pc[l] = "top" /\ sd_pc'[l] # "top") =>
                sd_pc'[l] = (IF sd_running THEN "poll" ELSE "exited")
          /\ (sd_pc[l] # "exited" /\ sd_pc'[l] = "exited") =>
                (sd_pc[l] = "top" /\ ~sd_running)]_vars

\* record_skip raised in a tick and the loop is back at its while test
C15_Witness ==
    \E l \in Loops :
        /\ sd_pc[l] = "top"
        /\ sd_running
        /\ sd_loc[l].error
        /\ sd_loc[l].emit # NoTrack

\* ------------------------------------------------------------------
\* the preference store, checked under SpecPrefs
\* ------------------------------------------------------------------
AllIdle == \A j \in Jobs : pf_job[j].pc = "idle"

\* the centroid on disk after calls that started from an empty profile and
\* ran one after the other
SequentialCentroid ==
    (pf_sequential /\ AllIdle /\ pf_log # <<>>) =>
        LET c  == LoadPreferences.taste_centroid
            v1 == pf_log[1].vec
        IN  /\ c.den > 0
            /\ Len(pf_log) = 1 => \A i \in DOMAIN v1 : c.num[i] = v1[i] * c.den
            /\ (Len(pf_log) = 2 /\ pf_log[2].positive) =>
                  \A i \in DOMAIN v1 : 10 * c.num[i] = (9 * v1[i] + pf_log[2].vec[i]) * c.den
            /\ (Len(pf_log) = 2 /\ ~pf_log[2].positive) =>
                  \A i \in DOMAIN v1 : 20 * c.num[i] = (18 * v1[i] - pf_log[2].vec[i]) * c.den

\* C12: a centroid update that embeds its description to v leaves v as the
\* centroid when there was none, 0.9*c + 0.1*v when positive and
\* 0.9*c - 0.05*v when not, in every dimension, and leaves the centroid alone
\* when there is no embedding; so from an empty profile one record_like
\* leaves v1 on disk and a following one 0.9*v1 + 0.1*v2.
C12_CentroidEma ==
    [][/\ \A j \in Jobs :
            (pf_job[j].pc = "load" /\ pf_job[j].kind = "centroid" /\ pf_job'[j].pc = "open") =>
                LET c == pf_job'[j].loaded.taste_centroid
                    n == pf_job'[j].prefs.taste_centroid
                    v == pf_job[j].track.vec
                IN  IF ~pf_job'[j].embedded THEN n = c
                    ELSE IF c.den = 0 THEN n.den > 0 /\ \A i \in DOMAIN v : n.num[i] = v[i] * n.den
                    ELSE IF pf_job[j].positive
                    THEN \A i \in DOMAIN v :
                            10 * n.num[i] * c.den = (9 * c.num[i] + v[i] * c.den) * n.den
                    ELSE \A i \in DOMAIN v :
                            20 * n.num[i] * c.den = (18 * c.num[i] - v[i] * c.den) * n.den
       /\ SequentialCentroid']_vars

\* two record_like calls, one after the other on an empty profile, with
\* different embeddings, and both centroid threads have finished
C12_Witness ==
    /\ pf_sequential
    /\ AllIdle
    /\ Len(pf_log) = 2
    /\ pf_log[1].vec # pf_log[2].vec
    /\ Cardinality({d \in pf_done : d.kind = "like"}) = 2

\* C13: with learning enabled and a centroid, score_tracks gives a track
\* whose primary artist is a key of skipped_artists 0.3 times its base score
\* and any other track its base score, the base score being (sim + 1) / 2,
\* or 0.5 when the description has no embedding.
C13_RankingPenalty ==
    pf_ranked.scored =>
        \A k \in DOMAIN pf_ranked.out :
            LET e     == pf_ranked.out[k]
                c     == pf_ranked.centroid
                dot   == c.num[1] * e.cand.vec[1] + c.num[2] * e.cand.vec[2]
                baseN == IF e.cand.embedded THEN dot + c.den ELSE 1
                baseD == IF e.cand.embedded THEN 2 * c.den ELSE 2
            IN  IF e.cand.artist \in pf_ranked.skipped
                THEN 10 * e.score.n * baseD = 3 * baseN * e.score.d
                ELSE e.score.n * baseD = baseN * e.score.d

\* a scored pool with a track of a skipped artist and a track of another
C13_Witness ==
    /\ pf_ranked.scored
    /\ \E k \in DOMAIN pf_ranked.out :
          pf_ranked.out[k].cand.artist \in pf_ranked.skipped /\ pf_ranked.out[k].cand.embedded
    /\ \E k \in DOMAIN pf_ranked.out : pf_ranked.out[k].cand.artist \notin pf_ranked.skipped

IsSuffix(s, t) == Len(s) <= Len(t) /\ s = SubSeq(t, Len(t) - Len(s) + 1, Len(t))

\* the list new is the list old, or old with one entry added at the end and
\* the oldest entries dropped down to cap
Bounded(old, new, cap) ==
    /\ Len(new) <= cap
    /\ \/ new = old
       \/ /\ Len(new) = (IF Len(old) + 1 <= cap THEN Len(old) + 1 ELSE cap)
          /\ IsSuffix(SubSeq(new, 1, Len(new) - 1), old)

\* C19: liked_tracks and skipped_tracks never hold more than 500 entries and
\* request_history never more than 100, on disk and in every profile about
\* to be saved, and a mutation keeps the most recent entries in insertion
\* order: what it drops is the oldest.
C19_BoundedHistories ==
    [][/\ Len(pf_disk'.prefs.liked_tracks) <= 500
       /\ Len(pf_disk'.prefs.skipped_tracks) <= 500
       /\ Len(pf_disk'.prefs.request_history) <= 100
       /\ \A j \in Jobs :
            (pf_job[j].pc = "load" /\ pf_job'[j].pc = "open") =>
                LET old == pf_job'[j].loaded
                    new == pf_job'[j].prefs
                IN  /\ Bounded(old.liked_tracks, new.liked_tracks, 500)
                    /\ Bounded(old.skipped_tracks, new.skipped_tracks, 500)
                    /\ Bounded(old.request_history, new.request_history, 100)
                    /\ (pf_job[j].kind = "like" /\ new.liked_tracks # old.liked_tracks) =>
                          new.liked_tracks[Len(new.liked_tracks)] = pf_job[j].track.id
                    /\ (pf_job[j].kind = "skip" /\ new.skipped_tracks # old.skipped_tracks) =>
                          new.skipped_tracks[Len(new.skipped_tracks)] = pf_job[j].track.id
                    /\ pf_job[j].kind = "request" =>
                          new.request_history[Len(new.request_history)] = pf_job[j].track.id]_vars

\* a skip recorded on a full skipped_tracks: the oldest entry is gone
C19_Witness ==
    /\ pf_disk.state = "doc"
    /\ Len(pf_disk.prefs.skipped_tracks) = 500
    /\ pf_disk.prefs.skipped_tracks[500] = 1001
    /\ pf_disk.prefs.skipped_tracks[1] = 2

Persisted(d) ==
    LET prefs == LoadPreferences
    IN  CASE d.kind = "like" -> d.id \in Ids(prefs.liked_tracks)
          [] d.kind = "skip" -> d.id \in Ids(prefs.skipped_tracks)
          [] OTHER -> d.id \in Ids(prefs.request_history)

\* C20: once a record_skip and a record_like or record_request have both
\* completed, and nothing else is running, the profile on disk holds the
\* entry of each.
C20_NoLostWrites ==
    AllIdle =>
        \A a, b \in pf_done :
            (a.kind = "skip" /\ b.kind \in {"like", "request"}) => (Persisted(a) /\ Persisted(b))

\* C37: the save of a centroid update leaves in the profile every like, skip
\* or request entry that another mutation wrote between the update's load
\* and that save. (Violated: the update saves the whole document it loaded.)
C37_CentroidFrame ==
    [][\A j \in Jobs :
          (/\ pf_job[j].kind = "centroid" /\ pf_job[j].pc = "write"
           /\ pf_job'[j].pc = "idle" /\ pf_disk'.state = "doc")
          => \A e \in pf_job[j].between : Persisted(e)']_vars

\* C38: at most one loop of the skip detector is polling at any time: no two
\* loops are past the test of line 419 and before the sleep of line 424
\* together. (Violated: stop() then start() within one sleep of the old loop
\* leaves the old loop running beside the new one.)
C38_OneLoopPolling ==
    Cardinality({l \in Loops : sd_pc[l] \in {"poll", "check", "skip", "rebase"}}) <= 1

\* ------------------------------------------------------------------
\* the planner's chain of backends, checked under SpecPlanner
\* ------------------------------------------------------------------
\* the remote candidates called so far
GeminiCalls == SelectSeq(pl_calls, LAMBDA c : c[1] = "gemini")

\* C23: the remote candidates are called in the order of CANDIDATE_MODELS,
\* each one only after the one before it failed or answered without queries;
\* nothing is called after an accepted answer; the local LLM is tried only
\* when the remote tier was skipped or every candidate failed; and the
\* entry's own fallback is used only when every configured tier was tried.
C23_FallbackChainOrder ==
    LET g == Len(GeminiCalls)
        n == Len(pl_calls)
    IN  /\ g <= NumCandidates /\ n <= g + 1
        /\ \A i \in 1..n : IF i <= g THEN pl_calls[i] = <<"gemini", i>>
                           ELSE pl_calls[i][1] \in {"local", "import"}
        /\ pl_pc = "gemini" => (pl_raw = None /\ pl_model = g + 1 /\ n = g)
        /\ (pl_raw # None /\ pl_raw.tier = "gemini") =>
              (pl_pc = "done" /\ n = g /\ pl_result.queries # <<>>)
        /\ n > g => (pl_cfg.local_url /\ pl_pc = "done" /\ g \in {0, NumCandidates}
                     /\ (pl_raw # None => pl_raw.tier = "local"))
        /\ (pl_pc = "done" /\ pl_raw = None) =>
              /\ (pl_cfg.api_key /\ ~pl_cfg.local_only) => g = NumCandidates
              /\ pl_cfg.local_url => n = g + 1

\* every remote candidate and then the local LLM failed: the fallback answers
C23_Witness ==
    /\ pl_pc = "done"
    /\ pl_raw = None
    /\ Len(pl_calls) = NumCandidates + 1
    /\ pl_calls[NumCandidates + 1] = <<"local", 0>>

\* C24: with local_only set, or without a cloud key, no remote model is
\* called: the chain calls the local LLM when it is configured and nothing
\* at all when it is not, and the fallback answers when that fails.
C24_LocalOnlyNoRemote ==
    (pl_pc # "idle" /\ (pl_cfg.local_only \/ ~pl_cfg.api_key)) =>
        /\ GeminiCalls = <<>>
        /\ pl_pc \in {"local", "done"}
        /\ pl_pc = "done" =>
              /\ Len(pl_calls) = (IF pl_cfg.local_url THEN 1 ELSE 0)
              /\ pl_raw # None => pl_raw.tier = "local"

\* a key is configured but local_only is set: only the local LLM was called
C24_Witness ==
    /\ pl_pc = "done"
    /\ pl_cfg.api_key /\ pl_cfg.local_only
    /\ pl_calls = <<(<<"local", 0>>)>>
    /\ pl_raw # None

\* ------------------------------------------------------------------
\* the session state and the queue, checked under SpecPlay
\* ------------------------------------------------------------------
\* the call has returned a PlayResult with success = true
Succeeded == py_pc = "done" /\ py_result # None /\ py_result.success

\* C25 as stated: a successful play()/play_mixed() sets last_queries to the
\* queries of its directives and played_uris to the old set plus the
\* submitted URIs; a call that returns a failure leaves both as they were;
\* played_uris never shrinks.
C25_SessionState ==
    [][/\ played_uris \subseteq played_uris'
       /\ (py_pc = "playback" /\ Succeeded') =>
             /\ last_queries' = DirQueries(py_dir)
             /\ played_uris' = played_uris \cup Range(py_submitted')
       /\ (py_pc # "done" /\ py_pc' = "done" /\ ~Succeeded') =>
             UNCHANGED <<last_queries, played_uris>>]_vars

\* C25, amended: a successful play()/play_mixed() with a directives object
\* sets last_queries to its queries, and with a bare string leaves
\* last_queries as it was; it sets played_uris to the old set plus the
\* submitted URIs; a call that returns a failure leaves both as they were;
\* nothing but the step that started playback changes either; played_uris
\* never shrinks.
C25_SessionStateByDirectives ==
    [][/\ played_uris \subseteq played_uris'
       /\ (py_pc = "playback" /\ Succeeded') =>
             /\ last_queries' = (IF py_dir.kind = "obj" THEN py_dir.queries ELSE last_queries)
             /\ played_uris' = played_uris \cup Range(py_submitted')
       /\ (py_pc # "done" /\ py_pc' = "done" /\ ~Succeeded') =>
             UNCHANGED <<last_queries, played_uris>>
       /\ (last_queries' # last_queries \/ played_uris' # played_uris) =>
             (py_pc = "playback" /\ py_issued' /\ (py_pc' = "done" => Succeeded'))]_vars

\* a second successful call of the session, with a directives object, has
\* added its URIs to those of the first
C25_Witness ==
    /\ Succeeded
    /\ py_dir.kind = "obj"
    /\ last_queries = py_dir.queries
    /\ py_played0 # {}
    /\ played_uris # py_played0
    /\ py_played0 \subseteq played_uris

\* the queue size a call works with (lines 658, 662 and 570)
QueueSizeOfCall == IF py_call = "play" THEN DirQueueSize(py_dir) ELSE MixedQueueSize(py_dir)

C27_MixedQueueParts ==
    (py_call = "mixed" /\ py_pc \notin {"idle", "building"}) =>
        LET q  == IF py_dir.queue_size < 1 THEN 1
                  ELSE IF py_dir.queue_size > 200 THEN 200 ELSE py_dir.queue_size
            np == (q * py_mix_ratio) \div 100
        IN  /\ Len(py_sample) <= np
            /\ Uris(py_sample) \subseteq py_playlist_uris
            /\ Len(py_search) <= q - np
            /\ Uris(py_search) \cap py_playlist_uris = {}
            /\ Len(py_tracks) = Len(py_sample) + Len(py_search)
            /\ Range(py_tracks) = Range(py_sample) \cup Range(py_search)
            /\ (\A i, j \in DOMAIN py_sample : i # j => py_sample[i].uri # py_sample[j].uri) =>
                  \A i, j \in DOMAIN py_tracks : i # j => py_tracks[i].uri # py_tracks[j].uri

\* a mixed queue of a playlist track and a search track, the search having
\* also found a track of the playlist
C27_Witness ==
    /\ py_call = "mixed"
    /\ Succeeded
    /\ py_sample # <<>>
    /\ py_search # <<>>
    /\ py_found \cap py_playlist_uris # {}

\* ---------------------------------------------------------------- the polling loop, checked under SpecSkipFair and SpecSkip

NoLoopAlive == \A l \in Loops : sd_pc[l] \in {"none", "exited"}

\* C28: stop() is cooperative: once the flag is cleared and start() is not
\* called again, every polling loop eventually exits; a tick in progress runs
\* to its end, a tick begins only from the loop's test with the flag set, and
\* a loop that tested the cleared flag exits and polls no more.
C28_StopCooperative ==
    /\ (~sd_running /\ sd_starts = MaxStarts) ~> NoLoopAlive
    /\ [][\A l \in Loops :
            /\ (sd_pc'[l] = "poll" /\ sd_pc[l] # "poll") => (sd_pc[l] = "top" /\ sd_running)
            /\ (sd_pc[l] = "top" /\ ~sd_running /\ sd_pc'[l] # "top") => sd_pc'[l] = "exited"
            /\ (sd_pc[l] = "exited" /\ sd_pc'[l] # "exited") =>
                   (sd_pc'[l] = "top" /\ sd_starts' = sd_starts + 1 /\ sd_running')
            /\ (sd_pc[l] \in {"poll", "check", "skip", "rebase"}) => sd_pc'[l] # "exited"
       ]_vars

C28_Witness ==
    /\ ~sd_running /\ sd_starts = MaxStarts
    /\ NoLoopAlive
    /\ \E l \in Loops : sd_pc[l] = "exited"

C30_StableReordering ==
    LET in  == pf_ranked.tracks
        out == pf_ranked.out
    IN  /\ Len(out) = Len(in)
        /\ {out[k].pos : k \in DOMAIN out} = DOMAIN in
        /\ \A k \in DOMAIN out : out[k].cand = in[out[k].pos]
        /\ \A k, m \in DOMAIN out :
              k < m =>
                 /\ ~Greater(out[m].score, out[k].score)
                 /\ (~Greater(out[k].score, out[m].score)) => out[k].pos < out[m].pos
        /\ ~pf_ranked.scored => \A k \in DOMAIN out : out[k].pos = k

\* a scored list of three: the penalised first track sank below the second,
\* and the third, its equal, stayed behind it
C30_Witness ==
    /\ pf_ranked.scored
    /\ Len(pf_ranked.out) = 3
    /\ pf_ranked.out[1].pos = 2
    /\ pf_ranked.out[2].pos = 1
    /\ pf_ranked.out[3].pos = 3
    /\ pf_ranked.out[2].cand.artist \in pf_ranked.skipped
    /\ pf_ranked.out[2].score = pf_ranked.out[3].score


\* ---------------------------------------------------------------- errors of the store, checked under SpecPrefs

\* C22: errors of the preference store are not propagated: load_preferences
\* gives the empty profile for a missing, empty or unparsable file, and no
\* call of record_like, record_skip or record_request ends with an exception.
C22_ErrorsNotPropagated ==
    /\ (pf_disk.state \in {"absent", "unreadable"}) => LoadPreferences = EmptyPrefs
    /\ \A j \in Jobs : pf_job[j].raised \notin {"like", "skip", "request"}


\* ---------------------------------------------------------------- the embedding model, checked under SpecEmbed

\* C21: however the callers of _get_embedder interleave, the model is
\* constructed at most once; only the holder of the lock tests and loads, so
\* a caller that arrives during a load waits for the lock; a caller that gets
\* the lock after a load returns the loaded instance without constructing,
\* and all instances returned are the same one.
C21_EmbedderSingleton ==
    /\ [](/\ em_built <= 1
          /\ \A t \in Threads : em_pc[t] \in {"recheck", "load"} => em_lock = t
          /\ \A t \in Threads : em_ret[t] > 0 => em_ret[t] = em_embedder)
    /\ [][\A t \in Threads :
            /\ (em_pc[t] = "acquire" /\ em_lock # 0) => em_pc'[t] = "acquire"
            /\ (em_pc[t] = "recheck" /\ em_embedder # 0 /\ em_pc'[t] # "recheck") =>
                   /\ em_ret'[t] = em_embedder
                   /\ em_built' = em_built
       ]_vars

\* three callers, one of which loaded while the others were past the first
\* test, all hold the one instance
C21_Witness ==
    /\ em_built = 1
    /\ \A t \in Threads : em_ret[t] = 1 /\ em_pc[t] = "idle"
    /\ em_calls = MaxThreads


\* ---------------------------------------------------------------- the like and skip histories, checked under SpecPrefs

NoDuplicates(s) == Cardinality(Ids(s)) = Len(s)

\* C31: the stored liked_tracks and skipped_tracks never hold one id twice;
\* every record_like (record_skip) adds exactly 1 to the count of the track's
\* artist in the profile it loaded, whether or not the track's id is already
\* listed, and leaves the list alone when the id is listed.
C31_DedupNotCounters ==
    /\ [](pf_disk.state = "doc" =>
             /\ NoDuplicates(pf_disk.prefs.liked_tracks)
             /\ NoDuplicates(pf_disk.prefs.skipped_tracks))
    /\ [][\A j \in Jobs :
            (pf_job[j].pc = "load" /\ pf_job'[j].pc = "open") =>
               LET job == pf_job'[j]
                   old == job.loaded
                   new == job.prefs
                   a   == job.track.artist
               IN  /\ job.kind = "like" =>
                         /\ new.liked_artists[a] = old.liked_artists[a] + 1
                         /\ \A b \in PrefArtists \ {a} : new.liked_artists[b] = old.liked_artists[b]
                         /\ job.track.id \in Ids(new.liked_tracks)
                         /\ job.track.id \in Ids(old.liked_tracks) =>
                                new.liked_tracks = old.liked_tracks
                         /\ NoDuplicates(old.liked_tracks) => NoDuplicates(new.liked_tracks)
                   /\ job.kind = "skip" =>
                         /\ new.skipped_artists[a] = old.skipped_artists[a] + 1
                         /\ \A b \in PrefArtists \ {a} : new.skipped_artists[b] = old.skipped_artists[b]
                         /\ job.track.id \in Ids(new.skipped_tracks)
                         /\ job.track.id \in Ids(old.skipped_tracks) =>
                                new.skipped_tracks = old.skipped_tracks
                         /\ NoDuplicates(old.skipped_tracks) => NoDuplicates(new.skipped_tracks)
       ]_vars

\* a track already listed was liked again: the list on disk is as it was and
\* the artist's count went from 1 to 2
C31_Witness ==
    /\ pf_disk.state = "doc"
    /\ [kind |-> "like", id |-> 1] \in pf_done
    /\ pf_disk.prefs.liked_tracks = LongPrefs.liked_tracks
    /\ pf_disk.prefs.liked_artists["a1"] = LongPrefs.liked_artists["a1"] + 1


\* ---------------------------------------------------------------- the builders' requests, checked under SpecRequests

\* C32: in track mode the requests of one build go query by query in the
\* given order; the first page of a query is asked at offset 0, each further
\* page 10 after the page before it and only when that page came back with
\* 10 results, never beyond the fifth page (offset 40); and when the build
\* ranks its pool every query has had its turn.
C32_PaginationOrder ==
    rq_mode = "track" =>
        /\ \A i \in 1..Len(rq_log) :
              LET e == rq_log[i]
              IN  /\ e.kind \in {"token", "search"}
                  /\ e.q \in 1..rq_n /\ e.q <= rq_q
                  /\ i > 1 => rq_log[i - 1].q <= e.q
                  /\ e.kind = "token" => (i > 1 => rq_log[i - 1].q < e.q)
                  /\ e.kind = "search" =>
                        /\ i > 1 /\ rq_log[i - 1].q = e.q
                        /\ e.offset <= (SEARCH_PAGES - 1) * RESULTS_PER_QUERY
                        /\ IF rq_log[i - 1].kind = "search"
                           THEN /\ e.offset = rq_log[i - 1].offset + RESULTS_PER_QUERY
                                /\ rq_log[i - 1].n = RESULTS_PER_QUERY
                           ELSE e.offset = 0
        /\ rq_pc \in {"rank", "done"} =>
              \A q \in 1..rq_n : \E i \in 1..Len(rq_log) : rq_log[i].q = q

\* two queries: the first was paged five times, every page full, the second
\* stopped after a short second page
C32_Witness ==
    /\ rq_mode = "track" /\ rq_pc = "done" /\ rq_n = 2
    /\ Len(rq_log) = 9
    /\ rq_log[6].kind = "search" /\ rq_log[6].q = 1 /\ rq_log[6].offset = 40
    /\ rq_log[6].n = RESULTS_PER_QUERY
    /\ rq_log[9].q = 2 /\ rq_log[9].offset = 10 /\ rq_log[9].n = 3

\* the tracks an answered request delivered
Delivered(e) ==
    IF e.kind = "search" THEN Range(PageOf("search", e.q, "", e.offset, e.n))
    ELSE IF e.kind = "fetch" THEN Range(PageOf("album", e.q, e.album, 2 * e.page, e.n))
    ELSE {}

\* C33: a failed request does not abort a build: when the pool is ranked
\* every query has had its turn, the pool holds every track that an answered
\* request delivered (the pages before a failed one included) and nothing
\* else, and the builder ends by returning a list.
C33_FailureIsolated ==
    /\ rq_pc \in {"idle", "token", "page", "albums", "fetch", "rank", "done"}
    /\ rq_pc \in {"rank", "done"} =>
          /\ \A q \in 1..rq_n : \E i \in 1..Len(rq_log) : rq_log[i].q = q
          /\ Range(rq_all) = UNION {Delivered(rq_log[i]) : i \in 1..Len(rq_log)}

\* the answers of the album searches made so far, by query
AlbumSearches == {rq_log[i] : i \in {k \in 1..Len(rq_log) : rq_log[k].kind = "albums"}}

\* C34: in album mode every album fetched is the first of its query's album
\* search and no album id is fetched twice; a track search is made for a
\* query exactly when its album search gave nothing, and for that query only;
\* every track returned comes from an album so selected or from such a track
\* search, and no more than target tracks are returned.
C34_AlbumMode ==
    rq_mode = "album" =>
        /\ \A i \in 1..Len(rq_log) :
              LET e == rq_log[i]
              IN  /\ e.kind = "fetch" =>
                        /\ \E a \in AlbumSearches :
                              a.q = e.q /\ a.items # <<>> /\ e.album = a.items[1]
                        /\ e.album \in rq_seen_album_ids
                        /\ \A j \in 1..(i - 1) :
                              (rq_log[j].kind = "fetch" /\ rq_log[j].album = e.album) =>
                                  /\ rq_log[j].q = e.q
                                  /\ rq_log[j].page < e.page
                  /\ e.kind \in {"token", "search"} =>
                        \E a \in AlbumSearches : a.q = e.q /\ a.items = <<>>
        /\ \A a \in AlbumSearches :
              (a.items = <<>> /\ (a.q < rq_q \/ rq_pc \in {"page", "rank", "done"})) =>
                  \E i \in 1..Len(rq_log) : rq_log[i].kind = "token" /\ rq_log[i].q = a.q
        /\ \A k \in 1..Len(rq_out) :
              LET t == rq_out[k]
              IN  \E a \in AlbumSearches :
                     /\ a.q = t.q
                     /\ IF t.src = "album"
                        THEN a.items # <<>> /\ t.album = a.items[1]
                        ELSE a.items = <<>>
        /\ Len(rq_out) <= rq_target

\* two queries: the first album of the first query's answer was fetched, the
\* second query's album search gave nothing and its track search was used;
\* tracks of both were returned
C34_Witness ==
    /\ rq_mode = "album" /\ rq_pc = "done" /\ rq_n = 2
    /\ [kind |-> "albums", q |-> 1, ok |-> TRUE, items |-> <<"B", "A">>] \in AlbumSearches
    /\ rq_seen_album_ids = {"B"}
    /\ \E a \in AlbumSearches : a.q = 2 /\ a.items = <<>>
    /\ \E k \in 1..Len(rq_out) : rq_out[k].src = "album" /\ rq_out[k].album = "B"
    /\ \E k \in 1..Len(rq_out) : rq_out[k].src = "search" /\ rq_out[k].q = 2
    /\ Len(rq_out) = rq_target
    /\ Len(rq_all) > rq_target

\* ---------------------------------------------------------------- caller claims

\* C35: a play() that succeeds has appended exactly one entry to
\* request_history, whose request field is the request string that produced
\* the directives and whose success field is true (learning enabled); a
\* play() that fails has appended nothing. (Violated: the entry's request is
\* always the empty string.)
C35_RequestRecorded ==
    /\ (ss_result = "ok" /\ pf_learning) =>
          ss_appended = <<[request |-> ss_request, success |-> TRUE]>>
    /\ ss_result \in {"fail", "ai_error"} => ss_appended = <<>>

\* C39: the pair handed to get_continue_params belongs together: the queries
\* are those most recently played for the request of the pair (or none were
\* played yet), never those played for another request. (Violated: a fresh
\* request replaces last_request before it is planned, and last_queries only
\* once it has played.)
C39_PairBelongsTogether ==
    ss_handed.kind = "pair" => ss_handed.owner \in {ss_handed.request, <<>>}

\* ---------------------------------------------------------------- like claims

\* C36: like_current_track is a toggle over liked_ids: of two successful
\* calls in a row for the same track the second leaves liked_ids as it was
\* before the first; the is_liked of the track get_current_track returned is
\* the membership of its id in liked_ids; record_like was invoked only by a
\* call that took the id from outside liked_ids into it; and a call whose
\* remote save or remove failed returned false and left liked_ids as it was.
C36_LikeToggle ==
    /\ lk_pc = "got" => lk_track.is_liked = (lk_track.id \in liked_ids)
    /\ \A i \in 1..Len(lk_calls) :
          LET c == lk_calls[i]
          IN  /\ c.recorded => (c.track.id \notin c.before /\ c.track.id \in c.after)
              /\ c.remote = "fail" => (~c.success /\ c.after = c.before)
    /\ (/\ Len(lk_calls) = LikeCallsKept
        /\ lk_calls[1].success /\ lk_calls[2].success
        /\ lk_calls[1].track.id = lk_calls[2].track.id)
       => lk_calls[2].after = lk_calls[1].before

\* two successful calls for one track, the first a like that invoked
\* record_like, made with another track already liked
C36_Witness ==
    /\ Len(lk_calls) = LikeCallsKept
    /\ lk_calls[1].success /\ lk_calls[2].success
    /\ lk_calls[1].track.id = lk_calls[2].track.id
    /\ lk_calls[1].recorded
    /\ lk_calls[1].before # {}
    /\ liked_ids = lk_calls[1].before

====
